---- MODULE Spec2Model ----
(***************************************************************************)
(* Model of miapy's ingestion traverser (data/creation/traverser.py) and   *)
(* of its extraction pipeline (data/extraction/extractor.py).              *)
(*                                                                         *)
(* Three specifications share the module's variables:                      *)
(*   SpecTraverse  one call of SubjectFileTraverser.traverse, stepped at   *)
(*                 its observable points (Loader calls, callback hooks);   *)
(*   SpecPad       PadPatchDataExtractor: construction, then extract calls;*)
(*   SpecCache     the caching extractors (NamesExtractor, FilesExtractor, *)
(*                 DataExtractor) called repeatedly against two stores.    *)
(* Each specification leaves the variables of the others at their initial  *)
(* value.                                                                  *)
(***************************************************************************)
EXTENDS Integers, Sequences, FiniteSets, TLC

\* ------------------------------------------------------------------ bounds

\* Longest subject list handed to traverse.
MaxSubjects == 3

\* Longest one-dimensional array in the store, beside the length-10 scenario.
MaxLen == 3

\* Longest side of a two-dimensional array in the store.
MaxLen2 == 2

\* Largest padding before or after a patch, per dimension.
MaxPad == 2

\* Most extract calls made on one PadPatchDataExtractor.
MaxPadCalls == 2

\* Most extract calls made on one caching extractor.
MaxCalls == 3

\* ----------------------------------------------------------------- helpers

Range(s) == {s[i] : i \in 1..Len(s)}

Min(S) == CHOOSE x \in S : \A y \in S : x <= y

Max(S) == CHOOSE x \in S : \A y \in S : x >= y

Max2(a, b) == IF a >= b THEN a ELSE b

Min2(a, b) == IF a <= b THEN a ELSE b

\* Python's None for an optional value, and the wrapping of a present one.
None == <<>>

Some(x) == <<x>>

\* Body(v), with v evaluated once before Body uses it.
Bind(v, Body(_)) == CHOOSE y \in {Body(x) : x \in {v}} : TRUE

\* =============================================================== extraction

VARIABLES
  pad_store,              \* the store behind the Reader handed to extract
  pad_padding,            \* PadPatchDataExtractor.__init__'s padding argument
  index_diffs,            \* self.index_diffs
  pad_categories,         \* self.categories
  pad_entry_base_names,   \* self.entry_base_names (None until the first call)
  pad_params,             \* the params of the latest extract call
  pad_extracted,          \* the result mapping of the latest extract call
  pad_reads,              \* the Reader.read calls of the latest extract call
  pad_err,                \* the exception of the latest extract call, or "none"
  pad_calls               \* the number of extract calls made

padVars == <<pad_store, pad_padding, index_diffs, pad_categories, pad_entry_base_names,
             pad_params, pad_extracted, pad_reads, pad_err, pad_calls>>

VARIABLES
  ext_kind,           \* the class of the extractor instance
  ext_cache,          \* self.cache (NamesExtractor, FilesExtractor)
  ext_categories,     \* self.categories
  entire_subject,     \* self.entire_subject (DataExtractor)
  cached_result,      \* NamesExtractor.cached_result
  cached_file_root,   \* FilesExtractor.cached_file_root
  entry_base_names,   \* DataExtractor.entry_base_names
  ext_stores,         \* per extract call so far: the store behind its reader
  ext_params,         \* per extract call so far: its params
  ext_results,        \* per extract call so far: its result mapping at return
  ext_errs,           \* per extract call so far: its exception, or "none"
  ext_reads           \* the Reader.read calls so far: call number, store, key

cacheVars == <<ext_kind, ext_cache, ext_categories, entire_subject, cached_result,
               cached_file_root, entry_base_names, ext_stores, ext_params,
               ext_results, ext_errs, ext_reads>>

VARIABLES
  ch_extractors,      \* ComposeExtractor.extractors: the instances' fields
  ch_calls,           \* number of extract calls made on the ComposeExtractor
  ch_prev,            \* the extract call before the latest one
  ch_last,            \* the latest extract call and its outcome
  cmp_category,       \* the category both compared extractors are built for
  cmp_sel,            \* a SelectiveDataExtractor(selection=None, category)
  cmp_dat,            \* a DataExtractor(categories=(category,))
  cmp_last,           \* the latest pair of extract calls on the two
  cmp_calls           \* number of such pairs of calls

chainVars == <<ch_extractors, ch_calls, ch_prev, ch_last>>

cmpVars == <<cmp_category, cmp_sel, cmp_dat, cmp_last, cmp_calls>>

VARIABLES
  rc_kind,            \* the class of the extractor two callers share
  rc_cache,           \* self.cache of the shared instance
  rc_categories,      \* self.categories of the shared instance
  rc_entire_subject,  \* self.entire_subject of a shared DataExtractor
  rc_store,           \* the store both callers' readers are open on
  rc_cached,          \* its cached_result, cached_file_root or entry_base_names
  rc_pc,              \* per caller: where its extract call stands
  rc_local,           \* per caller: the local d, file_root or entry base names
  rc_params,          \* per caller: its params
  rc_extracted,       \* per caller: its result mapping
  rc_reads            \* the Reader calls so far: caller and key

raceVars == <<rc_kind, rc_cache, rc_categories, rc_entire_subject, rc_store, rc_cached, rc_pc, rc_local, rc_params,
              rc_extracted, rc_reads>>

extVars == <<padVars, cacheVars, chainVars, cmpVars, raceVars>>

\* No extractor is shared between callers.
RaceIdle ==
  /\ rc_kind = "none"
  /\ rc_cache = FALSE
  /\ rc_categories = <<>>
  /\ rc_entire_subject = FALSE
  /\ rc_store = "none"
  /\ rc_cached = <<>>
  /\ rc_pc = <<>>
  /\ rc_local = <<>>
  /\ rc_params = <<>>
  /\ rc_extracted = <<>>
  /\ rc_reads = <<>>

\* The record of an extract call that was not made.
NoCall ==
  [store |-> "none", params |-> [subject_index |-> -1, index_expr |-> [expression |-> <<>>]],
   incoming |-> [k \in {} |-> 0], fail |-> 0, rnd |-> 0, before |-> <<>>, err |-> "none",
   result |-> [k \in {} |-> 0], steps |-> <<>>, reader_calls |-> <<>>]

\* No ComposeExtractor has been constructed.
ChainIdle ==
  /\ ch_extractors = <<>>
  /\ ch_calls = 0
  /\ ch_prev = NoCall
  /\ ch_last = NoCall

\* The record of a pair of calls that was not made.
NoPair ==
  [store |-> "none", params |-> [subject_index |-> -1, index_expr |-> [expression |-> <<>>]],
   incoming |-> [k \in {} |-> 0], fail |-> 0,
   sel |-> [err |-> "none", result |-> [k \in {} |-> 0]],
   dat |-> [err |-> "none", result |-> [k \in {} |-> 0]]]

\* No pair of extractors is being compared.
CmpIdle ==
  /\ cmp_category = ""
  /\ cmp_sel = <<>>
  /\ cmp_dat = <<>>
  /\ cmp_last = NoPair
  /\ cmp_calls = 0

\* No caching extractor has been constructed.
CacheIdle ==
  /\ ext_kind = "none"
  /\ ext_cache = FALSE
  /\ ext_categories = <<>>
  /\ entire_subject = FALSE
  /\ cached_result = None
  /\ cached_file_root = None
  /\ entry_base_names = None
  /\ ext_stores = <<>>
  /\ ext_params = <<>>
  /\ ext_results = <<>>
  /\ ext_errs = <<>>
  /\ ext_reads = <<>>

\* A mapping (dict) with no key, and dict assignment m[k] = v.
EmptyMap == [k \in {} |-> 0]

Put(m, k, v) == [x \in (DOMAIN m) \cup {k} |-> IF x = k THEN v ELSE m[x]]

\* No extractor has been constructed: the state of the extraction side in a
\* specification that is not about it.
PadIdle ==
  /\ pad_store = [id |-> "none", shape |-> <<>>, entries |-> <<>>]
  /\ pad_padding = [form |-> "none", scalars |-> <<>>, pairs |-> <<>>]
  /\ index_diffs = <<>>
  /\ pad_categories = <<>>
  /\ pad_entry_base_names = None
  /\ pad_params = [subject_index |-> -1, index_expr |-> <<>>]
  /\ pad_extracted = EmptyMap
  /\ pad_reads = <<>>
  /\ pad_err = "none"
  /\ pad_calls = 0

\* ================================================================ traverser

VARIABLES
  files,              \* traverse's argument: the list of subject files
  callback,           \* whether a callback was given
  transform,          \* whether a transform was given
  transform_fn,       \* which function the transform is
  transform_calls,    \* the transform calls made so far, in order
  pc,                 \* position inside traverse
  err,                \* the exception that left traverse ("none" while running)
  sequence_names,     \* line 37
  gt_names,           \* line 40
  has_gt,             \* line 41
  subject_index,      \* 0-based index of the subject being processed
  seq_pos,            \* sequences of the current subject already iterated
  gt_pos,             \* label images of the current subject already iterated
  subject_sequences,  \* line 58
  subject_gts,        \* line 73
  transform_params,   \* lines 70, 84, 87
  hooks,              \* the callback hooks fired so far, in order
  loader_calls        \* the Loader calls made so far, in order

\* The extractors (declared above) are idle while traverse runs.
travVars == <<files, callback, transform, transform_fn, transform_calls, pc, err, sequence_names, gt_names,
              has_gt, subject_index, seq_pos, gt_pos, subject_sequences,
              subject_gts, transform_params, hooks, loader_calls>>

\* The messages of the exceptions traverse can end with.
ErrNoFiles == "ValueError: No files"

ErrNotSubjectFile == "ValueError: files must be of type SubjectFile"

ErrSequenceNames == "ValueError: inconsistent sequence names in the subject list"

ErrGtNames == "ValueError: inconsistent gt names in the subject list"

\* Attribute access on an object that lacks the attribute (e.g. None.keys()).
ErrAttribute == "AttributeError"

\* Whatever the Loader raises.
ErrLoader == "LoaderError"

\* The spec's error taxonomy over the exceptions of the code.
IsConfigurationError(e) == e \in {ErrNoFiles, ErrNotSubjectFile}

IsConsistencyError(e) == e \in {ErrSequenceNames, ErrGtNames}

\* The ordered key lists a subject's images / label_images dict can have.
ImageKeyLists == {<<"T1">>, <<"T2">>, <<"T1", "T2">>, <<"T2", "T1">>}

LabelKeyLists == {<<"GT">>, <<"GT", "SEG">>, <<"SEG", "GT">>}

\* A SubjectFile: images is a dict (its ordered keys), label_images a dict or None.
SubjectFiles ==
  [isSubjectFile : {TRUE}, hasAttrs : {TRUE}, images : ImageKeyLists,
   label_images : {None} \cup {Some(l) : l \in LabelKeyLists}]

\* List elements that are no SubjectFile: an object without the attributes
\* (a str, a dict, None), and objects that merely look like a SubjectFile.
OtherObjects ==
  {[isSubjectFile |-> FALSE, hasAttrs |-> FALSE, images |-> <<>>, label_images |-> None]}
  \cup [isSubjectFile : {FALSE}, hasAttrs : {TRUE}, images : {<<"T1", "T2">>},
        label_images : {None, Some(<<"GT">>)}]

Elements == SubjectFiles \cup OtherObjects

FileLists == UNION {[1..n -> Elements] : n \in 0..MaxSubjects}

\* SubjectFile.get_sequences(): the images dict.
get_sequences(subject_file) == subject_file.images

\* An array as the Loader returns it: the (subject, name) it was loaded from.
\* A stacked array lists its channels along the new trailing axis.
LoadedArray(si, name) == [stacked |-> FALSE, channels |-> << <<si, name>> >>]

NoArray == [stacked |-> FALSE, channels |-> <<>>]

RECURSIVE Channels(_)
Channels(data) ==
  IF data = <<>> THEN <<>> ELSE data[1].channels \o Channels(Tail(data))

\* default_concat: a single array is returned as it is, several are stacked.
default_concat(data) ==
  IF Len(data) = 1 THEN data[1] ELSE [stacked |-> TRUE, channels |-> Channels(data)]

\* Position of name in the list names (dict {name: i}), 0-based.
IndexOf(names, name) == (CHOOSE i \in 1..Len(names) : names[i] = name) - 1

\* _get_sequence_names, mutated: compares the number of names only.
GetSequenceNames_LenOnly(subject_files) ==
  LET sequences == subject_files[1].images
      bad == {i \in 1..Len(subject_files) :
                \/ ~subject_files[i].hasAttrs
                \/ Len(subject_files[i].images) # Len(sequences)}
  IN  IF bad = {} THEN [err |-> "none", names |-> sequences]
      ELSE [err |-> IF subject_files[Min(bad)].hasAttrs THEN ErrSequenceNames
                    ELSE ErrAttribute,
            names |-> <<>>]

\* _get_sequence_names: all() stops at the first subject whose key set differs
\* (ValueError) or that has no images attribute (AttributeError).
GetSequenceNames(subject_files) ==
  LET sequences == subject_files[1].images
      bad == {i \in 1..Len(subject_files) :
                \/ ~subject_files[i].hasAttrs
                \/ Range(subject_files[i].images) # Range(sequences)}
  IN  IF bad = {} THEN [err |-> "none", names |-> sequences]
      ELSE [err |-> IF subject_files[Min(bad)].hasAttrs THEN ErrSequenceNames
                    ELSE ErrAttribute,
            names |-> <<>>]

\* _get_gt_names: with a first subject without labels every subject must have
\* none; otherwise s.label_images.keys() is compared, which raises
\* AttributeError on a subject whose label_images is None.
GetGtNames(subject_files) ==
  IF subject_files[1].label_images = None
  THEN LET bad == {i \in 1..Len(subject_files) :
                     \/ ~subject_files[i].hasAttrs
                     \/ subject_files[i].label_images # None}
       IN  IF bad = {} THEN [err |-> "none", names |-> <<>>]
           ELSE [err |-> IF subject_files[Min(bad)].hasAttrs THEN ErrGtNames
                         ELSE ErrAttribute,
                 names |-> <<>>]
  ELSE LET gts == subject_files[1].label_images[1]
           noKeys == {i \in 1..Len(subject_files) :
                        \/ ~subject_files[i].hasAttrs
                        \/ subject_files[i].label_images = None}
           bad == noKeys \cup
                  {i \in 1..Len(subject_files) :
                     /\ i \notin noKeys
                     /\ Range(subject_files[i].label_images[1]) # Range(gts)}
       IN  IF bad = {} THEN [err |-> "none", names |-> gts]
           ELSE [err |-> IF Min(bad) \in noKeys THEN ErrAttribute ELSE ErrGtNames,
                 names |-> <<>>]

\* The checks of lines 29-46, in the order the code makes them.
Validation(fs) ==
  IF Len(fs) = 0 THEN [err |-> ErrNoFiles, sequence_names |-> <<>>, gt_names |-> <<>>]
  ELSE IF ~fs[1].isSubjectFile
  THEN [err |-> ErrNotSubjectFile, sequence_names |-> <<>>, gt_names |-> <<>>]
  ELSE LET s == GetSequenceNames(fs)
       IN  IF s.err # "none"
           THEN [err |-> s.err, sequence_names |-> <<>>, gt_names |-> <<>>]
           ELSE LET g == GetGtNames(fs)
                IN  [err |-> g.err, sequence_names |-> s.names, gt_names |-> g.names]

\* subject_file.subject: the subjects of a list are told apart by position.
SubjectName(si) == IF si \in 0..(Len(files) - 1) THEN <<"subject", si>> ELSE None

\* transform_params as a record: has_labels is whether the 'labels' key is in
\* it, transformed whether a transform returned it, and extra holds the keys a
\* transform added beyond subject, subject_index, images and labels.
NoParams == [subject |-> None, subject_index |-> -1, images |-> NoArray,
             has_labels |-> FALSE, labels |-> NoArray, transformed |-> FALSE,
             extra |-> EmptyMap]

\* What the array-valued step of a transform returns for an array.
TransformedArray(a) == [a EXCEPT !.channels = @ \o << <<-1, "transformed">> >>]

\* The transforms handed to traverse: one returns its payload as it is, the
\* other returns a mapping with new images, without 'labels', and with
\* 'subject_index' and 'has_gt' keys that carry values of its own.
TransformFns == {"identity", "override"}

ApplyTransform(fn, params) ==
  CASE fn = "identity" -> [params EXCEPT !.transformed = TRUE]
    [] fn = "override" ->
         [params EXCEPT !.transformed = TRUE,
                        !.images = TransformedArray(@),
                        !.subject_index = @ + 100,
                        !.has_labels = FALSE,
                        !.labels = NoArray,
                        !.extra = Put(EmptyMap, "has_gt", ~has_gt)]

\* MergeParams, mutated: a key of the context wins over the payload's.
MergeParams_ContextWins(si, payload) ==
  [has_gt |-> has_gt, subject |-> SubjectName(si), subject_index |-> si]

\* The context keys of the mapping a hook receives: {**callback_params,
\* **callback_subject_params, **payload}, where a key of the payload wins.
MergeParams(si, payload) ==
  [has_gt |-> IF "has_gt" \in DOMAIN payload.extra THEN payload.extra["has_gt"] ELSE has_gt,
   subject |-> IF payload = NoParams THEN SubjectName(si) ELSE payload.subject,
   subject_index |-> IF payload = NoParams THEN si ELSE payload.subject_index]

\* A fired hook: the loop's subject_index when it fired, the file's index and
\* name for a file hook, the context keys of the mapping it received and, for
\* on_subject_end, the payload merged into that mapping.
Hook(name, si, index, key, payload) ==
  [hook |-> name, subject_index |-> si, index |-> index, key |-> key,
   has_gt |-> has_gt, params |-> MergeParams(si, payload), payload |-> payload]

\* "if callback: callback.<hook>(...)".
Fire(h) == IF callback THEN Append(hooks, h) ELSE hooks

TravInit ==
  /\ files \in FileLists
  /\ callback \in BOOLEAN
  /\ transform \in BOOLEAN
  /\ transform_fn \in (IF transform THEN TransformFns ELSE {"none"})
  /\ transform_calls = <<>>
  /\ pc = "entry"
  /\ err = "none"
  /\ sequence_names = <<>>
  /\ gt_names = <<>>
  /\ has_gt = FALSE
  /\ subject_index = 0
  /\ seq_pos = 0
  /\ gt_pos = 0
  /\ subject_sequences = <<>>
  /\ subject_gts = <<>>
  /\ transform_params = NoParams
  /\ hooks = <<>>
  /\ loader_calls = <<>>
  /\ PadIdle
  /\ CacheIdle
  /\ ChainIdle
  /\ CmpIdle
  /\ RaceIdle

\* Lines 29-46: the checks and the name lists.
Validate ==
  /\ pc = "entry"
  /\ LET v == Validation(files)
     IN  /\ err' = v.err
         /\ pc' = IF v.err = "none" THEN "on_start" ELSE "raised"
         /\ sequence_names' = v.sequence_names
         /\ gt_names' = v.gt_names
         /\ has_gt' = (Len(v.gt_names) > 0)
  /\ UNCHANGED <<extVars, files, callback, transform, transform_fn, transform_calls, subject_index, seq_pos, gt_pos,
                 subject_sequences, subject_gts, transform_params, hooks,
                 loader_calls>>

\* Lines 48-49.
OnStart ==
  /\ pc = "on_start"
  /\ hooks' = Fire(Hook("on_start", -1, -1, "", NoParams))
  /\ pc' = "subject"
  /\ UNCHANGED <<extVars, files, callback, transform, transform_fn, transform_calls, err, sequence_names, gt_names, has_gt,
                 subject_index, seq_pos, gt_pos, subject_sequences, subject_gts,
                 transform_params, loader_calls>>

\* Lines 52-58: the next subject, or the end of the loop.
SubjectStart ==
  /\ pc = "subject"
  /\ subject_index < Len(files)
  /\ hooks' = Fire(Hook("on_subject_start", subject_index, -1, "", NoParams))
  /\ subject_sequences' = [i \in 1..Len(sequence_names) |-> NoArray]
  /\ seq_pos' = 0
  /\ gt_pos' = 0
  /\ pc' = "sequences"
  /\ UNCHANGED <<extVars, files, callback, transform, transform_fn, transform_calls, err, sequence_names, gt_names, has_gt,
                 subject_index, subject_gts, transform_params, loader_calls>>

\* LoadSequence, mutated: the array is stored at the position of the subject's
\* own iteration order.
LoadSequence_OwnOrder ==
  /\ pc = "sequences"
  /\ seq_pos < Len(get_sequences(files[subject_index + 1]))
  /\ LET sequence == get_sequences(files[subject_index + 1])[seq_pos + 1]
     IN  /\ loader_calls' = Append(loader_calls,
                                   [fn |-> "load_image", subject_index |-> subject_index,
                                    key |-> sequence])
         /\ \/ /\ subject_sequences' =
                    [subject_sequences EXCEPT ![seq_pos + 1] =
                                                LoadedArray(subject_index, sequence)]
               /\ hooks' = Fire(Hook("on_image_file", subject_index, seq_pos, sequence,
                                     NoParams))
               /\ seq_pos' = seq_pos + 1
               /\ UNCHANGED <<pc, err>>
            \/ /\ pc' = "raised"
               /\ err' = ErrLoader
               /\ UNCHANGED <<subject_sequences, hooks, seq_pos>>
  /\ UNCHANGED <<extVars, files, callback, transform, transform_fn, transform_calls,
                 sequence_names, gt_names, has_gt, subject_index, gt_pos, subject_gts,
                 transform_params>>

\* Lines 59-67: one iteration over subject_file.get_sequences().items().
LoadSequence ==
  /\ pc = "sequences"
  /\ seq_pos < Len(get_sequences(files[subject_index + 1]))
  /\ LET sequence == get_sequences(files[subject_index + 1])[seq_pos + 1]
         si == IndexOf(sequence_names, sequence)
     IN  /\ loader_calls' = Append(loader_calls,
                                   [fn |-> "load_image", subject_index |-> subject_index,
                                    key |-> sequence])
         /\ \/ /\ subject_sequences' =
                    [subject_sequences EXCEPT ![si + 1] = LoadedArray(subject_index, sequence)]
               /\ hooks' = Fire(Hook("on_image_file", subject_index, si, sequence, NoParams))
               /\ seq_pos' = seq_pos + 1
               /\ UNCHANGED <<pc, err>>
            \/ /\ pc' = "raised"
               /\ err' = ErrLoader
               /\ UNCHANGED <<subject_sequences, hooks, seq_pos>>
  /\ UNCHANGED <<extVars, files, callback, transform, transform_fn, transform_calls, sequence_names, gt_names, has_gt,
                 subject_index, gt_pos, subject_gts, transform_params>>

\* ConcatSequences, mutated: on_subject_end fires here, before the label loop.
ConcatSequences_EndEarly ==
  /\ pc = "sequences"
  /\ seq_pos = Len(get_sequences(files[subject_index + 1]))
  /\ transform_params' = [NoParams EXCEPT !.subject = SubjectName(subject_index),
                                          !.subject_index = subject_index,
                                          !.images = default_concat(subject_sequences)]
  /\ subject_gts' = IF has_gt THEN [i \in 1..Len(gt_names) |-> NoArray] ELSE subject_gts
  /\ hooks' = Fire(Hook("on_subject_end", subject_index, -1, "", transform_params'))
  /\ pc' = IF has_gt THEN "gts" ELSE "transform"
  /\ UNCHANGED <<extVars, files, callback, transform, transform_fn, transform_calls, err, sequence_names, gt_names, has_gt,
                 subject_index, seq_pos, gt_pos, subject_sequences, loader_calls>>

\* Lines 69-73: the images payload, then the label loop if there is ground truth.
ConcatSequences ==
  /\ pc = "sequences"
  /\ seq_pos = Len(get_sequences(files[subject_index + 1]))
  /\ transform_params' = [NoParams EXCEPT !.subject = SubjectName(subject_index),
                                          !.subject_index = subject_index,
                                          !.images = default_concat(subject_sequences)]
  /\ subject_gts' = IF has_gt THEN [i \in 1..Len(gt_names) |-> NoArray] ELSE subject_gts
  /\ pc' = IF has_gt THEN "gts" ELSE "transform"
  /\ UNCHANGED <<extVars, files, callback, transform, transform_fn, transform_calls, err, sequence_names, gt_names, has_gt,
                 subject_index, seq_pos, gt_pos, subject_sequences, hooks, loader_calls>>

\* LoadGt, mutated: the label file is loaded but no on_gt_file fires.
LoadGt_NoHook ==
  /\ pc = "gts"
  /\ gt_pos < Len(files[subject_index + 1].label_images[1])
  /\ LET gt == files[subject_index + 1].label_images[1][gt_pos + 1]
         gi == IndexOf(gt_names, gt)
     IN  /\ loader_calls' = Append(loader_calls,
                                   [fn |-> "load_image_labels",
                                    subject_index |-> subject_index, key |-> gt])
         /\ subject_gts' = [subject_gts EXCEPT ![gi + 1] = LoadedArray(subject_index, gt)]
         /\ gt_pos' = gt_pos + 1
  /\ UNCHANGED <<extVars, files, callback, transform, transform_fn, transform_calls, pc, err, sequence_names, gt_names, has_gt,
                 subject_index, seq_pos, subject_sequences, transform_params, hooks>>

\* LoadGt, mutated: on_gt_file fires before the label file is loaded.
LoadGt_HookBeforeLoad ==
  /\ pc = "gts"
  /\ gt_pos < Len(files[subject_index + 1].label_images[1])
  /\ LET gt == files[subject_index + 1].label_images[1][gt_pos + 1]
         gi == IndexOf(gt_names, gt)
     IN  /\ loader_calls' = Append(loader_calls,
                                   [fn |-> "load_image_labels",
                                    subject_index |-> subject_index, key |-> gt])
         /\ hooks' = Fire(Hook("on_gt_file", subject_index, gi, gt, NoParams))
         /\ \/ /\ subject_gts' = [subject_gts EXCEPT ![gi + 1] = LoadedArray(subject_index, gt)]
               /\ gt_pos' = gt_pos + 1
               /\ UNCHANGED <<pc, err>>
            \/ /\ pc' = "raised"
               /\ err' = ErrLoader
               /\ UNCHANGED <<subject_gts, gt_pos>>
  /\ UNCHANGED <<extVars, files, callback, transform, transform_fn, transform_calls,
                 sequence_names, gt_names, has_gt, subject_index, seq_pos,
                 subject_sequences, transform_params>>

\* Lines 74-81: one iteration over subject_file.label_images.items().
LoadGt ==
  /\ pc = "gts"
  /\ gt_pos < Len(files[subject_index + 1].label_images[1])
  /\ LET gt == files[subject_index + 1].label_images[1][gt_pos + 1]
         gi == IndexOf(gt_names, gt)
     IN  /\ loader_calls' = Append(loader_calls,
                                   [fn |-> "load_image_labels",
                                    subject_index |-> subject_index, key |-> gt])
         /\ \/ /\ subject_gts' = [subject_gts EXCEPT ![gi + 1] = LoadedArray(subject_index, gt)]
               /\ hooks' = Fire(Hook("on_gt_file", subject_index, gi, gt, NoParams))
               /\ gt_pos' = gt_pos + 1
               /\ UNCHANGED <<pc, err>>
            \/ /\ pc' = "raised"
               /\ err' = ErrLoader
               /\ UNCHANGED <<subject_gts, hooks, gt_pos>>
  /\ UNCHANGED <<extVars, files, callback, transform, transform_fn, transform_calls, sequence_names, gt_names, has_gt,
                 subject_index, seq_pos, subject_sequences, transform_params>>

\* ConcatGts, mutated: the stacked label images are not put into the payload.
ConcatGts_NoLabels ==
  /\ pc = "gts"
  /\ gt_pos = Len(files[subject_index + 1].label_images[1])
  /\ pc' = "transform"
  /\ UNCHANGED <<extVars, files, callback, transform, transform_fn, transform_calls, err,
                 sequence_names, gt_names, has_gt, subject_index, seq_pos, gt_pos,
                 subject_sequences, subject_gts, transform_params, hooks, loader_calls>>

\* Lines 83-84: the labels payload.
ConcatGts ==
  /\ pc = "gts"
  /\ gt_pos = Len(files[subject_index + 1].label_images[1])
  /\ transform_params' = [transform_params EXCEPT !.has_labels = TRUE,
                                                  !.labels = default_concat(subject_gts)]
  /\ pc' = "transform"
  /\ UNCHANGED <<extVars, files, callback, transform, transform_fn, transform_calls, err, sequence_names, gt_names, has_gt,
                 subject_index, seq_pos, gt_pos, subject_sequences, subject_gts, hooks,
                 loader_calls>>

\* Lines 86-87: the optional transform over the subject's payload.
Transform ==
  /\ pc = "transform"
  /\ transform_params' = IF transform
                         THEN ApplyTransform(transform_fn, transform_params)
                         ELSE transform_params
  /\ transform_calls' = IF transform
                        THEN Append(transform_calls,
                                    [subject_index |-> subject_index,
                                     params |-> transform_params,
                                     hooks_before |-> Len(hooks)])
                        ELSE transform_calls
  /\ pc' = "subject_end"
  /\ UNCHANGED <<extVars, files, callback, transform, transform_fn, err, sequence_names, gt_names, has_gt,
                 subject_index, seq_pos, gt_pos, subject_sequences, subject_gts, hooks,
                 loader_calls>>

\* SubjectEnd, mutated: the loop does not get past its last subject.
SubjectEnd_NotLast ==
  /\ pc = "subject_end"
  /\ subject_index + 1 < Len(files)
  /\ hooks' = Fire(Hook("on_subject_end", subject_index, -1, "", transform_params))
  /\ subject_index' = subject_index + 1
  /\ pc' = "subject"
  /\ UNCHANGED <<extVars, files, callback, transform, transform_fn, transform_calls, err,
                 sequence_names, gt_names, has_gt, seq_pos, gt_pos, subject_sequences,
                 subject_gts, transform_params, loader_calls>>

\* Lines 89-90, and the loop's step to the next subject.
SubjectEnd ==
  /\ pc = "subject_end"
  /\ hooks' = Fire(Hook("on_subject_end", subject_index, -1, "", transform_params))
  /\ subject_index' = subject_index + 1
  /\ pc' = "subject"
  /\ UNCHANGED <<extVars, files, callback, transform, transform_fn, transform_calls, err, sequence_names, gt_names, has_gt,
                 seq_pos, gt_pos, subject_sequences, subject_gts, transform_params,
                 loader_calls>>

\* Lines 92-93, after the last subject.
OnEnd ==
  /\ pc = "subject"
  /\ subject_index = Len(files)
  /\ hooks' = Fire(Hook("on_end", Len(files), -1, "", NoParams))
  /\ pc' = "done"
  /\ UNCHANGED <<extVars, files, callback, transform, transform_fn, transform_calls, err, sequence_names, gt_names, has_gt,
                 subject_index, seq_pos, gt_pos, subject_sequences, subject_gts,
                 transform_params, loader_calls>>

TravNext ==
  \/ Validate
  \/ OnStart
  \/ SubjectStart
  \/ LoadSequence
  \/ ConcatSequences
  \/ LoadGt
  \/ ConcatGts
  \/ Transform
  \/ SubjectEnd
  \/ OnEnd

vars == <<travVars, extVars>>

SpecTraverse == TravInit /\ [][TravNext]_vars


\* ------------------------------------------------------- traverser: claims

AllSubjectFiles(fs) == \A i \in 1..Len(fs) : fs[i].isSubjectFile

\* Some subject's set of sequence names differs from the first subject's.
SequenceNamesDiffer(fs) ==
  \E i \in 1..Len(fs) : Range(fs[i].images) # Range(fs[1].images)

\* A subject's label names as a set, None kept apart from the empty set.
LabelNameSet(f) == IF f.label_images = None THEN None ELSE Some(Range(f.label_images[1]))

LabelNamesDiffer(fs) == \E i \in 1..Len(fs) : LabelNameSet(fs[i]) # LabelNameSet(fs[1])

NothingDone == hooks = <<>> /\ loader_calls = <<>>

IsFileHook(h) == h.hook \in {"on_image_file", "on_gt_file"}

\* Where a hook belongs in the protocol: on_start, then four phases per subject,
\* then on_end.
Rank(h) ==
  CASE h.hook = "on_start" -> -1
    [] h.hook = "on_subject_start" -> 4 * h.subject_index
    [] h.hook = "on_image_file" -> 4 * h.subject_index + 1
    [] h.hook = "on_gt_file" -> 4 * h.subject_index + 2
    [] h.hook = "on_subject_end" -> 4 * h.subject_index + 3
    [] h.hook = "on_end" -> 4 * Len(files)

HookCount(name) == Cardinality({i \in 1..Len(hooks) : hooks[i].hook = name})

LoaderCount(name) == Cardinality({i \in 1..Len(loader_calls) : loader_calls[i].fn = name})

\* C1: with a callback the hooks fire in protocol order at every point of a
\* run: on_start first and once; per subject, in list order, on_subject_start,
\* then its on_image_file calls, then its on_gt_file calls, then
\* on_subject_end; on_end last and once. A completed run has fired on_start,
\* on_end and one on_subject_start/on_subject_end per subject.
C1_HookOrder ==
  callback =>
    /\ \A i, j \in 1..Len(hooks) :
         i < j => /\ Rank(hooks[i]) <= Rank(hooks[j])
                  /\ (~IsFileHook(hooks[i]) \/ ~IsFileHook(hooks[j]))
                       => Rank(hooks[i]) < Rank(hooks[j])
    /\ hooks # <<>> => hooks[1].hook = "on_start"
    /\ pc = "done" =>
         /\ hooks[Len(hooks)].hook = "on_end"
         /\ HookCount("on_start") = 1
         /\ HookCount("on_end") = 1
         /\ \A k \in 0..(Len(files) - 1) :
              /\ \E i \in 1..Len(hooks) :
                   hooks[i].hook = "on_subject_start" /\ hooks[i].subject_index = k
              /\ \E i \in 1..Len(hooks) :
                   hooks[i].hook = "on_subject_end" /\ hooks[i].subject_index = k

\* A completed run over two or more subjects with two sequences and ground truth.
C1_Witness ==
  /\ pc = "done" /\ callback
  /\ Len(files) >= 2
  /\ Len(sequence_names) = 2
  /\ has_gt
  /\ HookCount("on_gt_file") >= 2

\* C2: a complete traversal of N homogeneous subjects with S sequence names and
\* G label names fires on_start once, on_subject_start and on_subject_end N
\* times, on_image_file N*S times, on_gt_file N*G times, on_end once, and calls
\* Loader.load_image N*S times and Loader.load_image_labels N*G times.
C2_HookCounts ==
  pc = "done" =>
    LET N == Len(files)
        S == Len(files[1].images)
        G == IF files[1].label_images = None THEN 0 ELSE Len(files[1].label_images[1])
    IN  /\ callback =>
              /\ HookCount("on_start") = 1
              /\ HookCount("on_subject_start") = N
              /\ HookCount("on_subject_end") = N
              /\ HookCount("on_image_file") = N * S
              /\ HookCount("on_gt_file") = N * G
              /\ HookCount("on_end") = 1
        /\ LoaderCount("load_image") = N * S
        /\ LoaderCount("load_image_labels") = N * G

\* The spec's scenario: N = 3, S = 2, G = 1 gives 1, 3, 3, 6, 3, 1.
C2_Witness ==
  /\ pc = "done" /\ callback
  /\ Len(files) = 3
  /\ Len(files[1].images) = 2
  /\ files[1].label_images # None /\ Len(files[1].label_images[1]) = 1
  /\ HookCount("on_start") = 1
  /\ HookCount("on_subject_start") = 3
  /\ HookCount("on_subject_end") = 3
  /\ HookCount("on_image_file") = 6
  /\ HookCount("on_gt_file") = 3
  /\ HookCount("on_end") = 1
  /\ LoaderCount("load_image") = 6
  /\ LoaderCount("load_image_labels") = 3

\* C3: a list of SubjectFiles in which some subject's set of sequence names
\* differs from the first subject's makes traverse raise the sequence-name
\* consistency error before any Loader call and before any hook.
C3_SequenceNamesRejected ==
  (pc # "entry" /\ Len(files) > 0 /\ AllSubjectFiles(files) /\ SequenceNamesDiffer(files))
    => /\ pc = "raised"
       /\ err = ErrSequenceNames
       /\ NothingDone

\* Rejected on a difference of names, not of their number.
C3_Witness ==
  /\ pc = "raised"
  /\ Len(files) >= 2
  /\ AllSubjectFiles(files)
  /\ SequenceNamesDiffer(files)
  /\ \A i \in 1..Len(files) : Len(files[i].images) = Len(files[1].images)
  /\ err = ErrSequenceNames

\* C4: a list of SubjectFiles whose label names are not homogeneous (sets that
\* differ, labels missing from the first subject only, or labels missing from
\* a later subject only) makes traverse raise the consistency error before any
\* Loader call or hook.
C4_LabelNamesRejected ==
  (pc # "entry" /\ Len(files) > 0 /\ AllSubjectFiles(files) /\ LabelNamesDiffer(files))
    => /\ pc = "raised"
       /\ IsConsistencyError(err)
       /\ NothingDone

\* C5: a list holding, at any position, an element that is not a SubjectFile
\* makes traverse raise the configuration error before any Loader call or hook.
C5_NonSubjectFileRejected ==
  (pc # "entry" /\ \E i \in 1..Len(files) : ~files[i].isSubjectFile)
    => /\ pc = "raised"
       /\ IsConfigurationError(err)
       /\ NothingDone

\* ==================================================== arrays and the Reader

\* No traverse call is in progress.
TravIdle ==
  /\ files = <<>>
  /\ callback = FALSE
  /\ transform = FALSE
  /\ transform_fn = "none"
  /\ transform_calls = <<>>
  /\ pc = "idle"
  /\ err = "none"
  /\ sequence_names = <<>>
  /\ gt_names = <<>>
  /\ has_gt = FALSE
  /\ subject_index = 0
  /\ seq_pos = 0
  /\ gt_pos = 0
  /\ subject_sequences = <<>>
  /\ subject_gts = <<>>
  /\ transform_params = NoParams
  /\ hooks = <<>>
  /\ loader_calls = <<>>

Dims(shape) == 1..Len(shape)

\* Arrays are held in row-major order: val[k + 1] is the element whose index
\* tuple has row-major position k.
RECURSIVE SizeFrom(_, _)
SizeFrom(shape, d) == IF d > Len(shape) THEN 1 ELSE shape[d] * SizeFrom(shape, d + 1)

Size(shape) == SizeFrom(shape, 1)

\* Row-major position of a 0-based index tuple.
RECURSIVE LinearIndex(_, _, _)
LinearIndex(shape, i, d) ==
  IF d = 0 THEN 0 ELSE LinearIndex(shape, i, d - 1) * shape[d] + i[d]

\* The 0-based index tuple at row-major position k.
Unravel(shape, k) ==
  [d \in Dims(shape) |-> (k \div SizeFrom(shape, d + 1)) % shape[d]]

\* The 0-based index tuples of an array of the given shape.
Indices(shape) == {Unravel(shape, k) : k \in 0..(Size(shape) - 1)}

\* The array of the given shape whose element at index tuple i is F(i).
MakeArray(shape, F(_)) ==
  Bind(shape, LAMBDA shp :
    [shape |-> shp, val |-> [k \in 1..Size(shp) |-> F(Unravel(shp, k - 1))]])

\* arr[i] for a full index tuple.
At(arr, i) == arr.val[LinearIndex(arr.shape, i, Len(arr.shape)) + 1]

\* np.zeros(shape).
Zeros(shape) == MakeArray(shape, LAMBDA i : 0)

\* A slice bound as Python normalises it against a length n.
Norm(x, n) == IF x < 0 THEN Max2(x + n, 0) ELSE Min2(x, n)

\* slice(start, stop).indices(n): the half-open range actually selected.
SliceBounds(sl, n) ==
  LET lo == Norm(sl.start, n)
      hi == Norm(sl.stop, n)
  IN  <<lo, Max2(lo, hi)>>

\* arr[expression] for a tuple of slices, one per dimension.
GetItem(arr, expression) ==
  LET b == [d \in Dims(arr.shape) |-> SliceBounds(expression[d], arr.shape[d])]
      shp == [d \in Dims(arr.shape) |-> b[d][2] - b[d][1]]
  IN  MakeArray(shp, LAMBDA j : At(arr, [d \in Dims(shp) |-> b[d][1] + j[d]]))

ErrBroadcast == "ValueError: could not broadcast input array"

\* arr[expression] = data: numpy clamps the slices to arr, then needs data to
\* have the selected shape (or length 1 where it differs).
SetItem(arr, expression, data) ==
  LET b == [d \in Dims(arr.shape) |-> SliceBounds(expression[d], arr.shape[d])]
      shp == [d \in Dims(arr.shape) |-> b[d][2] - b[d][1]]
      ok == \A d \in Dims(shp) : data.shape[d] = shp[d] \/ data.shape[d] = 1
  IN  IF ~ok THEN [err |-> ErrBroadcast, arr |-> arr]
      ELSE [err |-> "none",
            arr |-> MakeArray(arr.shape,
                      LAMBDA i :
                        IF \A d \in Dims(shp) : b[d][1] <= i[d] /\ i[d] < b[d][2]
                        THEN At(data, [d \in Dims(shp) |->
                                         IF data.shape[d] = 1 THEN 0 ELSE i[d] - b[d][1]])
                        ELSE At(arr, i))]

\* expr.IndexExpression(list of (start, stop)): a tuple of slices.
IndexExpression(indexing) ==
  [expression |-> [d \in 1..Len(indexing) |->
                     [start |-> indexing[d][1], stop |-> indexing[d][2]]]]

\* IndexExpression.get_indexing(): the (start, stop) pairs back.
get_indexing(index_expr) ==
  [d \in 1..Len(index_expr.expression) |->
     <<index_expr.expression[d].start, index_expr.expression[d].stop>>]

\* The value the store holds at index i of a subject's array in a category:
\* nonzero, and different for every category, subject and position.
CategoryBase(category) == IF category = "images" THEN 100 ELSE 200

StoreValue(store, category, base_name, i) ==
  (IF store.id = "A" THEN 0 ELSE 1000)
    + CategoryBase(category)
    + 50 * ((CHOOSE k \in 1..Len(store.entries) : store.entries[k].base = base_name) - 1)
    + LinearIndex(store.shape, i, Len(store.shape)) + 1

\* The data key of a subject's array: '<data placeholder for category>/<base_name>'.
DataKey(category, base_name) == [kind |-> "data", category |-> category, base |-> base_name]

\* Whether the store holds the category at all; store C has no labels.
HasCategory(store, category) == ~(store.id = "C" /\ category = "labels")

\* Reader.has(key) for a data key.
HasData(store, key) ==
  /\ HasCategory(store, key.category)
  /\ \E k \in 1..Len(store.entries) : store.entries[k].base = key.base

\* Reader.read(key, index_expr) of a subject's array: the store slices like
\* numpy, so a range past the array's extent is read short.
ReadData(store, key, index_expr) ==
  IF ~HasData(store, key) THEN [err |-> "StoreError", data |-> Zeros(<<>>)]
  ELSE [err |-> "none",
        data |-> GetItem(MakeArray(store.shape,
                                   LAMBDA i : StoreValue(store, key.category, key.base, i)),
                         index_expr.expression)]

\* Reader.get_subject_entries(), and the base name of an entry
\* (entry.rsplit('/', maxsplit=1)[1]).
get_subject_entries(store) == store.entries

EntryBaseNames(entries) == [k \in 1..Len(entries) |-> entries[k].base]

\* ================================================== PadPatchDataExtractor

\* __init__, mutated: the before offsets are not negated.
PadInit_NoNegate(padding) ==
  LET pairs == IF padding.form = "tuple"
               THEN [d \in 1..Len(padding.scalars) |->
                       <<padding.scalars[d], padding.scalars[d]>>]
               ELSE padding.pairs
  IN  [d \in 1..Len(pairs) |-> <<pairs[d][1], pairs[d][2]>>]

\* __init__ (lines 295-299): a tuple gives one symmetric amount per dimension,
\* a list gives (before, after) per dimension; index_diffs is (-before, +after).
PadInit(padding) ==
  LET pairs == IF padding.form = "tuple"
               THEN [d \in 1..Len(padding.scalars) |->
                       <<padding.scalars[d], padding.scalars[d]>>]
               ELSE padding.pairs
  IN  [d \in 1..Len(pairs) |-> <<-pairs[d][1], pairs[d][2]>>]

\* Line 308.
PaddedIndexing(indexing, diffs) ==
  [d \in 1..Len(indexing) |->
     <<indexing[d][1] + diffs[d][1], indexing[d][2] + diffs[d][2]>>]

\* Line 316: entries below 0 become 0.
ClipLow(padded_indexing) ==
  [d \in 1..Len(padded_indexing) |->
     <<Max2(padded_indexing[d][1], 0), Max2(padded_indexing[d][2], 0)>>]

\* padded_shape, mutated: taken after the range was clipped at 0.
PaddedShape_AfterClip(padded_indexing) ==
  [d \in 1..Len(padded_indexing) |->
     ClipLow(padded_indexing)[d][2] - ClipLow(padded_indexing)[d][1]]

\* Line 310.
PaddedShape(padded_indexing) ==
  [d \in 1..Len(padded_indexing) |-> padded_indexing[d][2] - padded_indexing[d][1]]

\* sub_indexing, mutated: the data always goes to offset 0.
SubIndexing_Zero(padded_indexing) ==
  [d \in 1..Len(padded_indexing) |-> <<0, 0>>]

\* sub_indexing, mutated: the sign is not changed (line 314 is missing).
SubIndexing_NoSignChange(padded_indexing) ==
  [d \in 1..Len(padded_indexing) |->
     <<IF padded_indexing[d][1] > 0 THEN 0 ELSE padded_indexing[d][1],
       IF padded_indexing[d][2] > 0 THEN 0 ELSE padded_indexing[d][2]>>]

\* Lines 312-314: positive entries become 0, the others change sign.
SubIndexing(padded_indexing) ==
  [d \in 1..Len(padded_indexing) |->
     <<IF padded_indexing[d][1] > 0 THEN 0 ELSE -padded_indexing[d][1],
       IF padded_indexing[d][2] > 0 THEN 0 ELSE -padded_indexing[d][2]>>]

\* Lines 320-329: the loop over the categories. sub_indexing is carried from
\* one category to the next; the first failing step ends the call.
RECURSIVE PadLoop(_, _, _, _, _, _, _, _)
PadLoop(store, cats, base_name, padded_shape, padded_index_expr, sub_indexing, extracted, reads) ==
  IF cats = <<>> THEN [err |-> "none", extracted |-> extracted, reads |-> reads]
  ELSE
    LET category == Head(cats)
        key == DataKey(category, base_name)
    IN  Bind(ReadData(store, key, padded_index_expr), LAMBDA r :
          LET data == r.data
              reads1 == Append(reads, [key |-> key, index_expr |-> padded_index_expr,
                                       shape |-> data.shape])
          IN  IF r.err # "none"
              THEN [err |-> r.err, extracted |-> extracted, reads |-> reads1]
              ELSE
                \* Line 325: the stop column becomes start + data.shape.
                Bind([d \in 1..Len(sub_indexing) |->
                        <<sub_indexing[d][1], sub_indexing[d][1] + data.shape[d]>>],
                     LAMBDA sub1 :
                  \* Lines 323-328: pad_data = zeros; pad_data[sub_index_expr] = data.
                  Bind(SetItem(Zeros(padded_shape), IndexExpression(sub1).expression, data),
                       LAMBDA w :
                    IF w.err # "none"
                    THEN [err |-> w.err, extracted |-> extracted, reads |-> reads1]
                    ELSE PadLoop(store, Tail(cats), base_name, padded_shape,
                                 padded_index_expr, sub1,
                                 Put(extracted, category, w.arr), reads1))))

\* extract, mutated: the padded indexing is computed in place in
\* self.index_diffs (self.index_diffs += indexing).
PadPatchExtract_InPlace(store, diffs, cats, cached_names, params, extracted) ==
  LET names == IF cached_names = None
               THEN EntryBaseNames(get_subject_entries(store))
               ELSE cached_names[1]
      base_name == names[params.subject_index + 1]
  IN  Bind(PaddedIndexing(get_indexing(params.index_expr), diffs), LAMBDA padded_indexing :
        Bind(PadLoop(store, cats, base_name, PaddedShape(padded_indexing),
                     IndexExpression(ClipLow(padded_indexing)),
                     SubIndexing(padded_indexing), extracted, <<>>),
             LAMBDA res :
               [err |-> res.err, extracted |-> res.extracted, reads |-> res.reads,
                entry_base_names |-> Some(names),
                index_diffs |-> ClipLow(padded_indexing), params |-> params]))

\* PadPatchDataExtractor.extract (lines 301-329). padded_indexing is a new
\* array (line 308) and sub_indexing a copy of it (line 312): the assignments
\* of lines 313-316 and 325 change neither self.index_diffs nor params.
PadPatchExtract(store, diffs, cats, cached_names, params, extracted) ==
  LET names == IF cached_names = None
               THEN EntryBaseNames(get_subject_entries(store))
               ELSE cached_names[1]
      base_name == names[params.subject_index + 1]
  IN  Bind(PaddedIndexing(get_indexing(params.index_expr), diffs), LAMBDA padded_indexing :
        Bind(PadLoop(store, cats, base_name, PaddedShape(padded_indexing),
                     IndexExpression(ClipLow(padded_indexing)),
                     SubIndexing(padded_indexing), extracted, <<>>),
             LAMBDA res :
               [err |-> res.err, extracted |-> res.extracted, reads |-> res.reads,
                entry_base_names |-> Some(names),
                index_diffs |-> diffs, params |-> params]))

\* The stores: one subject whose array is one- or two-dimensional.
PadShapes ==
  {<<n>> : n \in (1..MaxLen) \cup {10}}
    \cup {<<a, b>> : a \in 1..MaxLen2, b \in 1..MaxLen2}

PadStore(shape) ==
  [id |-> "A", shape |-> shape, entries |-> <<[group |-> "images", base |-> "Subject_0"]>>]

\* The padding arguments for an array of nd dimensions, in both forms; the
\* amounts of a two-dimensional padding stay below MaxPad.
PadAmounts(nd) == IF nd = 1 THEN 0..MaxPad ELSE 0..(MaxPad - 1)

Paddings(nd) ==
  {[form |-> "tuple", scalars |-> s, pairs |-> <<>>] : s \in [1..nd -> PadAmounts(nd)]}
    \cup {[form |-> "list", scalars |-> <<>>, pairs |-> p] :
            p \in [1..nd -> PadAmounts(nd) \X PadAmounts(nd)]}

\* The index expressions of non-empty patches inside an array of the shape.
PatchRanges(n) == {r \in (0..n) \X (0..n) : r[1] < r[2]}

PatchIndexExprs(shape) ==
  {IndexExpression(ix) :
     ix \in {x \in [Dims(shape) -> UNION {PatchRanges(shape[d]) : d \in Dims(shape)}] :
               \A d \in Dims(shape) : x[d] \in PatchRanges(shape[d])}}

PadInitState ==
  /\ \E shape \in PadShapes :
       /\ pad_store = PadStore(shape)
       /\ \E padding \in Paddings(Len(shape)) :
            /\ pad_padding = padding
            /\ index_diffs = PadInit(padding)
  /\ pad_categories \in {<<"images">>, <<"images", "labels">>}
  /\ pad_entry_base_names = None
  /\ pad_params = [subject_index |-> -1, index_expr |-> <<>>]
  /\ pad_extracted = EmptyMap
  /\ pad_reads = <<>>
  /\ pad_err = "none"
  /\ pad_calls = 0
  /\ TravIdle
  /\ CacheIdle
  /\ ChainIdle
  /\ CmpIdle
  /\ RaceIdle

\* One extract call with params and a fresh result mapping.
PadCall(params) ==
  \E res \in {PadPatchExtract(pad_store, index_diffs, pad_categories,
                              pad_entry_base_names, params, EmptyMap)} :
    /\ pad_params' = res.params
    /\ index_diffs' = res.index_diffs
    /\ pad_extracted' = res.extracted
    /\ pad_reads' = res.reads
    /\ pad_err' = res.err
    /\ pad_entry_base_names' = res.entry_base_names
    /\ pad_calls' = pad_calls + 1
    /\ UNCHANGED <<pad_store, pad_padding, pad_categories, travVars, cacheVars,
                   chainVars, cmpVars, raceVars>>

\* The first extract call on the instance, with any params.
PadExtract ==
  /\ pad_calls = 0
  /\ \E si \in 0..(Len(pad_store.entries) - 1) :
       \E ie \in PatchIndexExprs(pad_store.shape) :
         PadCall([subject_index |-> si, index_expr |-> ie])

\* A further extract call on the instance; the caller repeats its params.
PadExtractAgain ==
  /\ pad_calls > 0
  /\ pad_calls < MaxPadCalls
  /\ PadCall(pad_params)

PadNext ==
  \/ PadExtract
  \/ PadExtractAgain

SpecPad == PadInitState /\ [][PadNext]_vars

\* ----------------------------------------- PadPatchDataExtractor: claims

\* The configured (before, after) amounts per dimension, from the argument.
PadPairs ==
  IF pad_padding.form = "tuple"
  THEN [d \in 1..Len(pad_padding.scalars) |->
          <<pad_padding.scalars[d], pad_padding.scalars[d]>>]
  ELSE pad_padding.pairs

\* The requested (start, stop) per dimension of the latest call.
Requested == get_indexing(pad_params.index_expr)

\* The padded range of the latest call, per dimension.
PaddedStart(d) == Requested[d][1] - PadPairs[d][1]

PaddedStop(d) == Requested[d][2] + PadPairs[d][2]

\* The store's value at index tuple i of the subject and category of the call.
Source(category, i) ==
  StoreValue(pad_store, category,
             pad_store.entries[pad_params.subject_index + 1].base, i)

PadDims == Dims(pad_store.shape)

\* The padded range lies inside the array in every dimension.
Interior ==
  \A d \in PadDims : PaddedStart(d) >= 0 /\ PaddedStop(d) <= pad_store.shape[d]

\* C6: the array written for a category has, in each dimension d, length
\* (stop_d + after_d) - (start_d - before_d), whether or not the padded range
\* leaves the array and however much the Reader returned; every configured
\* category is written.
C6_PaddedShape ==
  pad_calls > 0 =>
    /\ pad_err = "none"
    /\ DOMAIN pad_extracted = Range(pad_categories)
    /\ \A c \in DOMAIN pad_extracted :
         pad_extracted[c].shape = [d \in PadDims |-> PaddedStop(d) - PaddedStart(d)]

\* The padded range leaves the array on both sides and the Reader read short.
C6_Witness ==
  /\ pad_calls > 0
  /\ \E d \in PadDims : PaddedStart(d) < 0
  /\ \E d \in PadDims : PaddedStop(d) > pad_store.shape[d]
  /\ pad_reads[1].shape # [d \in PadDims |-> PaddedStop(d) - PaddedStart(d)]
  /\ pad_extracted["images"].shape = [d \in PadDims |-> PaddedStop(d) - PaddedStart(d)]

\* Index tuple i of the output lies in the region the unpadded patch takes at
\* the padding offset.
InPatchRegion(i) ==
  \A d \in PadDims :
    /\ PadPairs[d][1] <= i[d]
    /\ i[d] < PadPairs[d][1] + (Requested[d][2] - Requested[d][1])

\* C7 as stated: for a fully interior patch the output holds the unpadded read
\* of the requested range at the padding offset, and every element of the pad
\* margin is zero.
C7_InteriorZeroMargin ==
  (pad_calls > 0 /\ Interior) =>
    \A c \in Range(pad_categories) :
      /\ c \in DOMAIN pad_extracted
      /\ \A i \in Indices(pad_extracted[c].shape) :
           IF InPatchRegion(i)
           THEN At(pad_extracted[c], i) =
                  Source(c, [d \in PadDims |-> Requested[d][1] + i[d] - PadPairs[d][1]])
           ELSE At(pad_extracted[c], i) = 0

\* C7 amended: for a fully interior patch the output is the store's data over
\* the whole padded range: the unpadded read sits at the padding offset and
\* every pad-margin element holds the source's value at its position.
C7_InteriorVerbatim ==
  (pad_calls > 0 /\ Interior) =>
    \A c \in Range(pad_categories) :
      /\ c \in DOMAIN pad_extracted
      /\ pad_extracted[c].shape = [d \in PadDims |-> PaddedStop(d) - PaddedStart(d)]
      /\ \A i \in Indices(pad_extracted[c].shape) :
           At(pad_extracted[c], i) = Source(c, [d \in PadDims |-> PaddedStart(d) + i[d]])

\* An interior patch with a margin on both sides of some dimension.
C7_Witness ==
  /\ pad_calls > 0
  /\ Interior
  /\ \E d \in PadDims : PadPairs[d][1] > 0 /\ PadPairs[d][2] > 0
  /\ \E i \in Indices(pad_extracted["images"].shape) :
       ~InPatchRegion(i) /\ At(pad_extracted["images"], i) # 0

\* The spec's scenario: a one-dimensional array of length 10, padding (2, 2),
\* requested range (0, 3).
Scenario8 ==
  /\ pad_calls > 0
  /\ pad_store.shape = <<10>>
  /\ PadPairs = << <<2, 2>> >>
  /\ Requested = << <<0, 3>> >>

\* C8: in the scenario the output has length 7; its first two elements are
\* zero, its middle three are the source's values at 0, 1, 2 and its last two
\* are the source's values at 3 and 4.
C8_Scenario ==
  Scenario8 =>
    \A c \in Range(pad_categories) :
      /\ c \in DOMAIN pad_extracted
      /\ pad_extracted[c].shape = <<7>>
      /\ At(pad_extracted[c], <<0>>) = 0
      /\ At(pad_extracted[c], <<1>>) = 0
      /\ \A k \in 0..2 : At(pad_extracted[c], <<2 + k>>) = Source(c, <<k>>)
      /\ At(pad_extracted[c], <<5>>) = Source(c, <<3>>)
      /\ At(pad_extracted[c], <<6>>) = Source(c, <<4>>)

\* The scenario with the padding given as the explicit (before, after) pair.
C8_Witness ==
  /\ Scenario8
  /\ pad_padding.form = "list"
  /\ pad_err = "none"
  /\ pad_extracted["images"].shape = <<7>>

\* ======================================================= caching extractors

\* Two stores with two subjects each. They differ in their names, file roots
\* and subject entries; B lists "Subject_1" first.
StoreA ==
  [id |-> "A", shape |-> <<2>>,
   entries |-> <<[group |-> "images", base |-> "Subject_0"],
                 [group |-> "images", base |-> "Subject_1"]>>]

StoreB ==
  [id |-> "B", shape |-> <<2>>,
   entries |-> <<[group |-> "images", base |-> "Subject_1"],
                 [group |-> "images", base |-> "Case_7"]>>]

Stores == {StoreA, StoreB}

StoreById(id) == CHOOSE st \in Stores : st.id = id

\* What the store holds under the names key of a category.
StoreNames(store, category) ==
  IF store.id = "A"
  THEN (IF category = "images" THEN <<"T1", "T2">> ELSE <<"GT">>)
  ELSE (IF category = "images" THEN <<"FLAIR">> ELSE <<"SEG", "MASK">>)

\* What the store holds under the file root key.
StoreFileRoot(store) == IF store.id = "A" THEN "/data/a" ELSE "/data/b"

\* What the store holds under the files key of a category for a subject.
StoreFiles(store, category, si) == <<store.id, category, store.entries[si + 1].base>>

NamesKey(category) == [kind |-> "names", category |-> category, base |-> ""]

FilesRootKey == [kind |-> "files_root", category |-> "", base |-> ""]

FilesKey(category) == [kind |-> "files", category |-> category, base |-> ""]

\* The values under self.categories' names keys, as _extract builds them.
RECURSIVE NamesDict(_, _)
NamesDict(store, cats) ==
  IF cats = <<>> THEN EmptyMap
  ELSE Put(NamesDict(store, SubSeq(cats, 1, Len(cats) - 1)),
           cats[Len(cats)] \o "_names", StoreNames(store, cats[Len(cats)]))

\* for k, v in d.items(): extracted[k] = v.
RECURSIVE Update(_, _, _)
Update(extracted, d, keys) ==
  IF keys = {} THEN extracted
  ELSE LET k == CHOOSE x \in keys : TRUE
       IN  Update(Put(extracted, k, d[k]), d, keys \ {k})

\* NamesExtractor.extract, mutated: the read result is not kept.
NamesExtractorExtract_NotKept(store, cache, cached, cats, extracted) ==
  LET fresh == ~cache \/ cached = None
      d == IF fresh THEN NamesDict(store, cats) ELSE cached[1]
  IN  [cached_result |-> cached,
       extracted |-> Update(extracted, d, DOMAIN d),
       reads |-> IF fresh THEN [i \in 1..Len(cats) |-> NamesKey(cats[i])] ELSE <<>>]

\* NamesExtractor.extract (lines 46-60): _extract reads the names of every
\* category unless caching is on and a result is cached.
NamesExtractorExtract(store, cache, cached, cats, extracted) ==
  LET fresh == ~cache \/ cached = None
      d == IF fresh THEN NamesDict(store, cats) ELSE cached[1]
  IN  [cached_result |-> Some(d),
       extracted |-> Update(extracted, d, DOMAIN d),
       reads |-> IF fresh THEN [i \in 1..Len(cats) |-> NamesKey(cats[i])] ELSE <<>>]

\* The '<category>_files' entries of lines 149-151.
RECURSIVE FilesDict(_, _, _)
FilesDict(store, cats, si) ==
  IF cats = <<>> THEN EmptyMap
  ELSE Put(FilesDict(store, SubSeq(cats, 1, Len(cats) - 1), si),
           cats[Len(cats)] \o "_files", StoreFiles(store, cats[Len(cats)], si))

\* FilesExtractor.extract (lines 138-151).
FilesExtractorExtract(store, cache, cached, cats, params, extracted) ==
  LET fresh == ~cache \/ cached = None
      file_root == IF fresh THEN StoreFileRoot(store) ELSE cached[1]
      files_d == FilesDict(store, cats, params.subject_index)
  IN  [cached_file_root |-> Some(file_root),
       extracted |-> Update(Put(extracted, "file_root", file_root), files_d, DOMAIN files_d),
       reads |-> (IF fresh THEN <<FilesRootKey>> ELSE <<>>)
                   \o [i \in 1..Len(cats) |-> FilesKey(cats[i])]]

\* The whole array, as Reader.read(key) without an index expression returns it.
WholeArray(store) ==
  IndexExpression([d \in Dims(store.shape) |-> <<0, store.shape[d]>>])

\* Lines 280-285: the loop over the categories; a failing read ends the call.
RECURSIVE DataLoop(_, _, _, _, _, _, _)
DataLoop(store, cats, base_name, whole, index_expr, extracted, reads) ==
  IF cats = <<>> THEN [err |-> "none", extracted |-> extracted, reads |-> reads]
  ELSE
    LET key == DataKey(Head(cats), base_name)
    IN  Bind(ReadData(store, key, IF whole THEN WholeArray(store) ELSE index_expr),
             LAMBDA r :
               IF r.err # "none"
               THEN [err |-> r.err, extracted |-> extracted, reads |-> Append(reads, key)]
               ELSE DataLoop(store, Tail(cats), base_name, whole, index_expr,
                             Put(extracted, Head(cats), r.data), Append(reads, key)))

\* DataExtractor.extract (lines 271-285).
DataExtractorExtract(store, cats, whole, cached, params, extracted) ==
  LET names == IF cached = None THEN EntryBaseNames(get_subject_entries(store))
               ELSE cached[1]
  IN  Bind(DataLoop(store, cats, names[params.subject_index + 1], whole,
                    params.index_expr, extracted, <<>>),
           LAMBDA res :
             [err |-> res.err, extracted |-> res.extracted, reads |-> res.reads,
              entry_base_names |-> Some(names)])

CacheInit ==
  /\ ext_kind \in {"names", "files", "data"}
  /\ ext_cache \in (IF ext_kind = "data" THEN {FALSE} ELSE BOOLEAN)
  /\ ext_categories \in (IF ext_kind = "data" THEN {<<"images">>, <<"images", "labels">>}
                         ELSE {<<"images", "labels">>, <<"labels">>})
  /\ entire_subject \in (IF ext_kind = "data" THEN BOOLEAN ELSE {FALSE})
  /\ cached_result = None
  /\ cached_file_root = None
  /\ entry_base_names = None
  /\ ext_stores = <<>>
  /\ ext_params = <<>>
  /\ ext_results = <<>>
  /\ ext_errs = <<>>
  /\ ext_reads = <<>>
  /\ TravIdle
  /\ PadIdle
  /\ ChainIdle
  /\ CmpIdle
  /\ RaceIdle

\* The log entries of one call's Reader.read calls.
ReadLog(store, keys) ==
  [i \in 1..Len(keys) |-> [call |-> Len(ext_stores) + 1, store |-> store.id, key |-> keys[i]]]

\* The bookkeeping of one returned (or raised) extract call.
Called(store, params, result, error, keys) ==
  /\ ext_stores' = Append(ext_stores, store.id)
  /\ ext_params' = Append(ext_params, params)
  /\ ext_results' = Append(ext_results, result)
  /\ ext_errs' = Append(ext_errs, error)
  /\ ext_reads' = ext_reads \o ReadLog(store, keys)
  /\ UNCHANGED <<ext_kind, ext_cache, ext_categories, entire_subject, travVars, padVars,
                 chainVars, cmpVars, raceVars>>

NoIndexExpr == IndexExpression(<<>>)

\* One NamesExtractor.extract call with a reader of some store and a fresh
\* result mapping.
NamesExtract ==
  /\ ext_kind = "names"
  /\ Len(ext_stores) < MaxCalls
  /\ \E store \in Stores :
       \E res \in {NamesExtractorExtract(store, ext_cache, cached_result,
                                         ext_categories, EmptyMap)} :
         /\ cached_result' = res.cached_result
         /\ Called(store, [subject_index |-> 0, index_expr |-> NoIndexExpr],
                   res.extracted, "none", res.reads)
  /\ UNCHANGED <<cached_file_root, entry_base_names>>

\* One FilesExtractor.extract call.
FilesExtract ==
  /\ ext_kind = "files"
  /\ Len(ext_stores) < MaxCalls
  /\ \E store \in Stores :
       \E si \in 0..(Len(store.entries) - 1) :
         \E params \in {[subject_index |-> si, index_expr |-> NoIndexExpr]} :
           \E res \in {FilesExtractorExtract(store, ext_cache, cached_file_root,
                                             ext_categories, params, EmptyMap)} :
             /\ cached_file_root' = res.cached_file_root
             /\ Called(store, params, res.extracted, "none", res.reads)
  /\ UNCHANGED <<cached_result, entry_base_names>>

\* One DataExtractor.extract call.
DataExtract ==
  /\ ext_kind = "data"
  /\ Len(ext_stores) < MaxCalls
  /\ \E store \in Stores :
       \E si \in 0..(Len(store.entries) - 1) :
         \E ie \in PatchIndexExprs(store.shape) :
           \E params \in {[subject_index |-> si, index_expr |-> ie]} :
             \E res \in {DataExtractorExtract(store, ext_categories, entire_subject,
                                              entry_base_names, params, EmptyMap)} :
               /\ entry_base_names' = res.entry_base_names
               /\ Called(store, params, res.extracted, res.err, res.reads)
  /\ UNCHANGED <<cached_result, cached_file_root>>

CacheNext ==
  \/ NamesExtract
  \/ FilesExtract
  \/ DataExtract

SpecCache == CacheInit /\ [][CacheNext]_vars

\* ------------------------------------------------- claims on the caches

\* Every extract call so far was made with a reader of the same store.
OneStore == \A i \in DOMAIN ext_stores : ext_stores[i] = ext_stores[1]

\* The Reader.read calls made so far for a key.
ReadsOf(key) == {k \in DOMAIN ext_reads : ext_reads[k].key = key}

\* C9: over n >= 1 extract calls on one NamesExtractor against one store, each
\* configured category's names key is read exactly once when cache is enabled
\* and exactly n times when it is disabled, and every call writes the same
\* '<category>_names' values (the store's) into its result mapping.
C9_NamesReadOnce ==
  (ext_kind = "names" /\ ext_stores # <<>> /\ OneStore) =>
    \A c \in Range(ext_categories) :
      /\ Cardinality(ReadsOf(NamesKey(c))) = (IF ext_cache THEN 1 ELSE Len(ext_stores))
      /\ \A i \in DOMAIN ext_results :
           /\ ext_results[i][c \o "_names"] = ext_results[1][c \o "_names"]
           /\ ext_results[i][c \o "_names"] = StoreNames(StoreById(ext_stores[1]), c)

\* A caching NamesExtractor of two categories after MaxCalls calls on one store.
C9_Witness ==
  /\ ext_kind = "names"
  /\ ext_cache
  /\ ext_categories = <<"images", "labels">>
  /\ Len(ext_stores) = MaxCalls
  /\ OneStore
  /\ Cardinality(ReadsOf(NamesKey("images"))) = 1
  /\ Cardinality(ReadsOf(NamesKey("labels"))) = 1

\* Call i was made with a reader of another store than some earlier call.
StoreChanged(i) == \E j \in 1..(i - 1) : ext_stores[j] # ext_stores[i]

\* Call i returned what the store behind its own reader holds.
YieldsOwnStore(i) ==
  LET store == StoreById(ext_stores[i])
      params == ext_params[i]
  IN  CASE ext_kind = "names" ->
             \A c \in Range(ext_categories) :
               ext_results[i][c \o "_names"] = StoreNames(store, c)
        [] ext_kind = "files" ->
             /\ ext_results[i]["file_root"] = StoreFileRoot(store)
             /\ \A c \in Range(ext_categories) :
                  ext_results[i][c \o "_files"] = StoreFiles(store, c, params.subject_index)
        [] ext_kind = "data" ->
             /\ ext_errs[i] = "none"
             /\ \A c \in Range(ext_categories) :
                  ext_results[i][c] =
                    ReadData(store,
                             DataKey(c, store.entries[params.subject_index + 1].base),
                             IF entire_subject THEN WholeArray(store)
                             ELSE params.index_expr).data
        [] OTHER -> TRUE

\* C10: after a caching extractor instance has been used against one store, an
\* extract call on it with a reader of a different store yields that store's
\* values; the state cached from the first store is never served for it.
C10_CacheFollowsStore ==
  \A i \in DOMAIN ext_stores : StoreChanged(i) => YieldsOwnStore(i)

\* ------------------------------------- traverser: failures and payloads

\* The last Loader call made.
LastLoad == loader_calls[Len(loader_calls)]

\* The hook a successful Loader call is followed by.
FileHookOf(fn) == IF fn = "load_image" THEN "on_image_file" ELSE "on_gt_file"

\* C15: when a Loader call fails while a subject's sequence or label file is
\* loaded, traverse ends with the Loader's error and has fired no
\* on_image_file/on_gt_file for the failed file, no on_subject_end for that
\* subject, no hook for a later subject and no on_end, and has not called the
\* transform for that subject.
C15_LoaderFailureAborts ==
  err = ErrLoader =>
    /\ pc = "raised"
    /\ LastLoad.subject_index = subject_index
    /\ \A i \in 1..Len(hooks) :
         /\ ~(/\ hooks[i].hook = FileHookOf(LastLoad.fn)
              /\ hooks[i].subject_index = LastLoad.subject_index
              /\ hooks[i].key = LastLoad.key)
         /\ ~(hooks[i].hook = "on_subject_end" /\ hooks[i].subject_index = subject_index)
         /\ hooks[i].subject_index <= subject_index
         /\ hooks[i].hook # "on_end"
    /\ \A k \in 1..Len(transform_calls) : transform_calls[k].subject_index < subject_index

\* The second subject's label file fails to load under a callback and a transform.
C15_Witness ==
  /\ err = ErrLoader
  /\ callback /\ transform
  /\ subject_index = 1
  /\ LastLoad.fn = "load_image_labels"
  /\ Len(transform_calls) = 1
  /\ hooks[Len(hooks)].hook = "on_image_file"

\* The stack of a subject's arrays in the order of names: channel i is the
\* array loaded for names[i]; a single array stays as it is.
ExpectedStack(si, names) ==
  IF Len(names) = 1 THEN LoadedArray(si, names[1])
  ELSE [stacked |-> TRUE, channels |-> [i \in 1..Len(names) |-> <<si, names[i]>>]]

\* The payload of subject si before any transform.
ExpectedPayload(si) ==
  [subject |-> SubjectName(si), subject_index |-> si,
   images |-> ExpectedStack(si, files[1].images),
   has_labels |-> has_gt,
   labels |-> IF has_gt THEN ExpectedStack(si, files[1].label_images[1]) ELSE NoArray,
   transformed |-> FALSE, extra |-> EmptyMap]

\* C16: a given transform is called exactly once per subject, after the
\* subject's last on_image_file/on_gt_file and before its on_subject_end, with
\* a payload of subject, subject_index, images and (with ground truth) labels;
\* every field of its output is in the mapping on_subject_end receives, with
\* the transform's value also where the context has a key of that name.
C16_TransformOncePerSubject ==
  /\ ~transform => transform_calls = <<>>
  /\ transform =>
       /\ Len(transform_calls) = subject_index + (IF pc = "subject_end" THEN 1 ELSE 0)
       /\ \A k \in 1..Len(transform_calls) :
            LET c == transform_calls[k]
                out == ApplyTransform(transform_fn, c.params)
            IN  /\ c.subject_index = k - 1
                /\ c.params = ExpectedPayload(k - 1)
                /\ callback =>
                     \A i \in 1..Len(hooks) :
                       /\ i <= c.hooks_before => Rank(hooks[i]) <= 4 * (k - 1) + 2
                       /\ i > c.hooks_before => Rank(hooks[i]) >= 4 * (k - 1) + 3
                       /\ (hooks[i].hook = "on_subject_end" /\ hooks[i].subject_index = k - 1)
                            => /\ hooks[i].payload = out
                               /\ hooks[i].params.subject = out.subject
                               /\ hooks[i].params.subject_index = out.subject_index
                               /\ \A key \in DOMAIN out.extra :
                                    key = "has_gt" => hooks[i].params.has_gt = out.extra[key]

\* A completed run whose transform returned its own subject_index and has_gt.
C16_Witness ==
  /\ pc = "done" /\ callback /\ transform
  /\ transform_fn = "override"
  /\ Len(files) >= 2
  /\ has_gt
  /\ Len(transform_calls) = Len(files)
  /\ \E i \in 1..Len(hooks) :
       /\ hooks[i].hook = "on_subject_end"
       /\ hooks[i].params.subject_index = 101
       /\ hooks[i].params.has_gt = FALSE

\* C17: every subject's images payload, and likewise its labels payload, is
\* the stack of its loaded arrays with channel i the array of the i-th name in
\* the first subject's order, also for a subject that lists the names in
\* another order; the index reported to on_image_file/on_gt_file is that
\* channel position; a single array is passed on unchanged, without a channel
\* axis.
C17_ChannelOrder ==
  /\ pc \in {"gts", "transform"} =>
       /\ transform_params.images = ExpectedStack(subject_index, files[1].images)
       /\ Len(files[1].images) = 1 => ~transform_params.images.stacked
  /\ (pc = "transform" /\ has_gt) =>
       /\ transform_params.has_labels
       /\ transform_params.labels = ExpectedStack(subject_index, files[1].label_images[1])
       /\ Len(files[1].label_images[1]) = 1 => ~transform_params.labels.stacked
  /\ \A i \in 1..Len(hooks) :
       /\ hooks[i].hook = "on_image_file" =>
            files[1].images[hooks[i].index + 1] = hooks[i].key
       /\ hooks[i].hook = "on_gt_file" =>
            files[1].label_images[1][hooks[i].index + 1] = hooks[i].key
       /\ (hooks[i].hook = "on_subject_end" /\ ~transform) =>
            hooks[i].payload = [ExpectedPayload(hooks[i].subject_index)
                                  EXCEPT !.transformed = FALSE]

\* The payload of a second subject that lists both its sequences and its
\* labels in the reverse of the first subject's order.
C17_Witness ==
  /\ pc = "transform"
  /\ callback
  /\ subject_index = 1
  /\ files[1].images = <<"T1", "T2">>
  /\ files[2].images = <<"T2", "T1">>
  /\ files[1].label_images = Some(<<"GT", "SEG">>)
  /\ files[2].label_images = Some(<<"SEG", "GT">>)
  /\ transform_params.images.channels = << <<1, "T1">>, <<1, "T2">> >>
  /\ transform_params.labels.channels = << <<1, "GT">>, <<1, "SEG">> >>

\* --------------------------- PadPatchDataExtractor: placement and frame

\* The destination offset of dimension d: what the padded range fell below 0.
DestOffset(d) == Max2(0, PadPairs[d][1] - Requested[d][1])

\* The position of category c in the call's categories.
CategoryPos(c) == CHOOSE k \in 1..Len(pad_categories) : pad_categories[k] = c

\* The shape of the data the Reader returned for category c.
ReadShape(c) == pad_reads[CategoryPos(c)].shape

\* Index tuple i of the output lies in the destination sub-range of category c.
InDestination(c, i) ==
  \A d \in PadDims : DestOffset(d) <= i[d] /\ i[d] < DestOffset(d) + ReadShape(c)[d]

\* C19: for every configured category the output is zero outside the
\* sub-range [o_d, o_d + r_d) and holds the read data inside it, where o_d is
\* what the padded range fell below 0 and r_d the length of the data the
\* Reader returned; the Reader reads from the clipped lower bound and reads
\* short at the array's upper bound.
C19_Destination ==
  pad_calls > 0 =>
    /\ pad_err = "none"
    /\ Len(pad_reads) = Len(pad_categories)
    /\ \A c \in Range(pad_categories) :
         /\ c \in DOMAIN pad_extracted
         /\ \A d \in PadDims :
              ReadShape(c)[d] = Min2(PaddedStop(d), pad_store.shape[d]) - Max2(PaddedStart(d), 0)
         /\ \A i \in Indices(pad_extracted[c].shape) :
              IF InDestination(c, i)
              THEN At(pad_extracted[c], i) =
                     Source(c, [d \in PadDims |-> Max2(PaddedStart(d), 0) + i[d] - DestOffset(d)])
              ELSE At(pad_extracted[c], i) = 0

\* Two categories, a padded range that leaves the array on both sides of a
\* dimension, and zeros before and after the copied data.
C19_Witness ==
  /\ pad_calls > 0
  /\ pad_categories = <<"images", "labels">>
  /\ \E d \in PadDims :
       /\ PaddedStart(d) < 0
       /\ PaddedStop(d) > pad_store.shape[d]
       /\ ReadShape("labels")[d] = pad_store.shape[d]
  /\ \E i, j \in Indices(pad_extracted["labels"].shape) :
       /\ InDestination("labels", i) /\ At(pad_extracted["labels"], i) # 0
       /\ ~InDestination("labels", j) /\ At(pad_extracted["labels"], j) = 0

\* C20: an extract call leaves the instance's padding offsets as they were,
\* and a call that repeats the params of the call before it leaves the params
\* with their index expression unchanged, reads the same padded range and
\* returns the same output: the padding does not accumulate.
C20_NoAccumulation ==
  [][pad_calls' = pad_calls + 1 =>
       /\ index_diffs' = index_diffs
       /\ pad_calls > 0 =>
            /\ pad_params' = pad_params
            /\ pad_reads' = pad_reads
            /\ pad_extracted' = pad_extracted
            /\ pad_err' = pad_err]_vars

\* The instance was called MaxPadCalls times with a padding on both sides.
C20_Witness ==
  /\ pad_calls = MaxPadCalls
  /\ pad_calls >= 2
  /\ \E d \in PadDims : index_diffs[d][1] < 0 /\ index_diffs[d][2] > 0
  /\ index_diffs = PadInit(pad_padding)
  /\ pad_err = "none"

\* ============================== ComposeExtractor and the selecting extractors

\* Most extract calls made on one ComposeExtractor, or on one compared pair.
MaxChainCalls == 2

\* The exceptions of the extractors and of the Reader.
ErrPrecondition ==
  "ValueError: selection of labels requires label_names to be extracted (use NamesExtractor)"

ErrCategoryMissing == "ValueError: SelectiveDataExtractor requires category to exist"

ErrNotInList == "ValueError: name is not in list"

ErrRead == "ReadError"

\* The fields of an extractor instance; a field its class lacks stays as here.
Instance(kind) ==
  [kind |-> kind, cache |-> FALSE, categories |-> <<>>, entire_subject |-> FALSE,
   selection |-> None, cached_result |-> None, entry_base_names |-> None]

\* NamesExtractor.__init__ (lines 40-44).
NamesExtractor(cache, categories) ==
  [Instance("names") EXCEPT !.cache = cache, !.categories = categories]

\* DataExtractor.__init__ (lines 265-269).
DataExtractor(categories, whole) ==
  [Instance("data") EXCEPT !.categories = categories, !.entire_subject = whole]

\* SelectiveDataExtractor.__init__ (lines 157-171): a str selection becomes a
\* tuple of one name.
SelectiveDataExtractor(selection, category) ==
  [Instance("selective") EXCEPT !.selection = selection, !.categories = <<category>>]

\* RandomDataExtractor.__init__ (lines 201-216).
RandomDataExtractor(selection, category) ==
  [Instance("random") EXCEPT !.selection = selection, !.categories = <<category>>]

\* A store whose arrays have a trailing axis of two entries per category.
ChannelStore(id, entries) == [id |-> id, shape |-> <<2, 2>>, entries |-> entries]

ChainStores ==
  {ChannelStore("A", StoreA.entries), ChannelStore("C", StoreB.entries)}

ChainStoreById(id) == CHOOSE st \in ChainStores : st.id = id

\* A Reader call: its method and its key.
ReaderCall(fn, key) == [fn |-> fn, key |-> key]

SubjectsKey == [kind |-> "subjects", category |-> "", base |-> ""]

GroupKey(category) == [kind |-> "group", category |-> category, base |-> ""]

\* The number of Reader.read calls among calls.
ReadCount(calls) == Cardinality({k \in DOMAIN calls : calls[k].fn = "read"})

\* Reader.read of a subject's array as the n-th read of an extract call; the
\* read numbered fail raises (an I/O failure), fail = 0 meaning none does.
ChainRead(store, key, index_expr, n, fail) ==
  IF n = fail THEN [err |-> ErrRead, data |-> Zeros(<<>>)]
  ELSE ReadData(store, key, index_expr)

\* np.take(data, indices, axis=-1) for an array of indices.
Take(data, indices) ==
  LET last == Len(data.shape)
  IN  MakeArray([data.shape EXCEPT ![last] = Len(indices)],
                LAMBDA i : At(data, [i EXCEPT ![last] = indices[i[last] + 1]]))

\* np.take(data, index, axis=-1) for one index: the last axis is dropped.
TakeOne(data, index) ==
  MakeArray(SubSeq(data.shape, 1, Len(data.shape) - 1),
            LAMBDA i : At(data, Append(i, index)))

\* The step of one extractor: its exception, the instance afterwards, the keys
\* it wrote and the Reader calls of the extract call so far.
StepResult(error, inst, writes, calls) ==
  [err |-> error, inst |-> inst, writes |-> writes, calls |-> calls]

\* NamesExtractor.extract (lines 46-60) with a Reader that can fail.
NamesStep(inst, store, calls, fail) ==
  LET cats == inst.categories
      n0 == ReadCount(calls)
      bad == {k \in 1..Len(cats) : ~HasCategory(store, cats[k]) \/ n0 + k = fail}
      upto(n) == calls \o [k \in 1..n |-> ReaderCall("read", NamesKey(cats[k]))]
  IN  IF inst.cache /\ inst.cached_result # None
      THEN StepResult("none", inst, inst.cached_result[1], calls)
      ELSE IF bad # {}
      THEN StepResult(IF n0 + Min(bad) = fail THEN ErrRead ELSE "StoreError",
                      inst, EmptyMap, upto(Min(bad)))
      ELSE StepResult("none", [inst EXCEPT !.cached_result = Some(NamesDict(store, cats))],
                      NamesDict(store, cats), upto(Len(cats)))

\* Lines 272-274, 177-179, 222-224: the entry base names, read on first use.
EntryNamesOf(inst, store) ==
  IF inst.entry_base_names = None THEN EntryBaseNames(get_subject_entries(store))
  ELSE inst.entry_base_names[1]

EntryNamesCalls(inst, calls) ==
  IF inst.entry_base_names = None
  THEN Append(calls, ReaderCall("get_subject_entries", SubjectsKey))
  ELSE calls

\* Lines 280-285 with a Reader that can fail.
RECURSIVE DataStepLoop(_, _, _, _, _, _, _)
DataStepLoop(inst, store, cats, params, writes, calls, fail) ==
  IF cats = <<>> THEN StepResult("none", inst, writes, calls)
  ELSE
    LET key == DataKey(Head(cats), inst.entry_base_names[1][params.subject_index + 1])
        calls1 == Append(calls, ReaderCall("read", key))
    IN  Bind(ChainRead(store, key,
                       IF inst.entire_subject THEN WholeArray(store) ELSE params.index_expr,
                       ReadCount(calls1), fail),
             LAMBDA r :
               IF r.err # "none" THEN StepResult(r.err, inst, writes, calls1)
               ELSE DataStepLoop(inst, store, Tail(cats), params,
                                 Put(writes, Head(cats), r.data), calls1, fail))

\* DataExtractor.extract (lines 271-285).
DataStep(inst, store, params, calls, fail) ==
  DataStepLoop([inst EXCEPT !.entry_base_names = Some(EntryNamesOf(inst, store))],
               store, inst.categories, params, EmptyMap,
               EntryNamesCalls(inst, calls), fail)

\* The positions of the selected names in label_names (label_names.index(s)).
SelectionIndices(selection, label_names) ==
  [k \in 1..Len(selection) |-> IndexOf(label_names, selection[k])]

\* SelectRead, mutated: the precondition is checked after the entry base
\* names were read.
SelectRead_LateCheck(inst, store, params, extracted, calls, fail) ==
  IF (inst.categories[1] \o "_names") \notin DOMAIN extracted
  THEN [err |-> ErrPrecondition,
        inst |-> [inst EXCEPT !.entry_base_names = Some(EntryNamesOf(inst, store))],
        calls |-> EntryNamesCalls(inst, calls), data |-> Zeros(<<>>)]
  ELSE [err |-> ErrRead, inst |-> inst, calls |-> calls, data |-> Zeros(<<>>)]

\* Lines 173-189 and 218-234, which the two selecting extractors share: the
\* precondition, the entry base names, the category check and the read.
SelectRead(inst, store, params, extracted, calls, fail) ==
  LET category == inst.categories[1]
      inst1 == [inst EXCEPT !.entry_base_names = Some(EntryNamesOf(inst, store))]
      calls1 == Append(EntryNamesCalls(inst, calls), ReaderCall("has", GroupKey(category)))
      key == DataKey(category, inst1.entry_base_names[1][params.subject_index + 1])
      calls2 == Append(calls1, ReaderCall("read", key))
  IN  IF (category \o "_names") \notin DOMAIN extracted
      THEN [err |-> ErrPrecondition, inst |-> inst, calls |-> calls, data |-> Zeros(<<>>)]
      ELSE IF ~HasCategory(store, category)
      THEN [err |-> ErrCategoryMissing, inst |-> inst1, calls |-> calls1,
            data |-> Zeros(<<>>)]
      ELSE Bind(ChainRead(store, key, params.index_expr, ReadCount(calls2), fail),
                LAMBDA r : [err |-> r.err, inst |-> inst1, calls |-> calls2,
                            data |-> r.data])

\* SelectiveDataExtractor.extract, mutated: selection None selects the entries
\* that label_names lists.
SelectiveStep_TakeNamed(inst, store, params, extracted, calls, fail) ==
  Bind(SelectRead(inst, store, params, extracted, calls, fail), LAMBDA r :
    IF r.err # "none" THEN StepResult(r.err, r.inst, EmptyMap, r.calls)
    ELSE
      LET category == inst.categories[1]
          label_names == extracted[category \o "_names"]
      IN  StepResult("none", r.inst,
                     Put(EmptyMap, category,
                         Take(r.data, [k \in 1..Len(label_names) |-> k - 1])),
                     r.calls))

\* SelectiveDataExtractor.extract (lines 173-195).
SelectiveStep(inst, store, params, extracted, calls, fail) ==
  Bind(SelectRead(inst, store, params, extracted, calls, fail), LAMBDA r :
    IF r.err # "none" THEN StepResult(r.err, r.inst, EmptyMap, r.calls)
    ELSE
      LET category == inst.categories[1]
          label_names == extracted[category \o "_names"]
      IN  IF inst.selection = None
          THEN StepResult("none", r.inst, Put(EmptyMap, category, r.data), r.calls)
          ELSE IF ~(Range(inst.selection[1]) \subseteq Range(label_names))
          THEN StepResult(ErrNotInList, r.inst, EmptyMap, r.calls)
          ELSE StepResult("none", r.inst,
                          Put(EmptyMap, category,
                              Take(r.data, SelectionIndices(inst.selection[1], label_names))),
                          r.calls))

\* RandomDataExtractor.extract, mutated: the entry is drawn from all of
\* label_names, whatever the selection.
RandomStep_IgnoreSelection(inst, store, params, extracted, calls, fail, rnd) ==
  Bind(SelectRead(inst, store, params, extracted, calls, fail), LAMBDA r :
    IF r.err # "none" THEN StepResult(r.err, r.inst, EmptyMap, r.calls)
    ELSE
      LET category == inst.categories[1]
          label_names == extracted[category \o "_names"]
          random_index == rnd % Len(label_names)
      IN  StepResult("none", r.inst,
                     Put(EmptyMap, category, TakeOne(r.data, random_index)), r.calls))

\* RandomDataExtractor.extract (lines 218-242); rnd decides np.random.choice.
RandomStep(inst, store, params, extracted, calls, fail, rnd) ==
  Bind(SelectRead(inst, store, params, extracted, calls, fail), LAMBDA r :
    IF r.err # "none" THEN StepResult(r.err, r.inst, EmptyMap, r.calls)
    ELSE
      LET category == inst.categories[1]
          label_names == extracted[category \o "_names"]
      IN  IF inst.selection # None /\ ~(Range(inst.selection[1]) \subseteq Range(label_names))
          THEN StepResult(ErrNotInList, r.inst, EmptyMap, r.calls)
          ELSE
            LET selection_indices ==
                  IF inst.selection = None THEN [k \in 1..Len(label_names) |-> k - 1]
                  ELSE SelectionIndices(inst.selection[1], label_names)
                random_index == selection_indices[(rnd % Len(selection_indices)) + 1]
            IN  StepResult("none", r.inst,
                           Put(EmptyMap, category, TakeOne(r.data, random_index)), r.calls))

\* e.extract(reader, params, extracted) for the class of e.
ExtractorStep(inst, store, params, extracted, calls, fail, rnd) ==
  CASE inst.kind = "names" -> NamesStep(inst, store, calls, fail)
    [] inst.kind = "data" -> DataStep(inst, store, params, calls, fail)
    [] inst.kind = "selective" -> SelectiveStep(inst, store, params, extracted, calls, fail)
    [] inst.kind = "random" -> RandomStep(inst, store, params, extracted, calls, fail, rnd)

\* Lines 30-31: the loop over self.extractors from position k to position
\* last; an exception of e.extract ends it.
RECURSIVE RunChain(_, _, _, _, _, _, _, _, _, _)
RunChain(insts, k, last, store, params, extracted, calls, steps, fail, rnd) ==
  IF k > last
  THEN [err |-> "none", insts |-> insts, extracted |-> extracted, calls |-> calls,
        steps |-> steps]
  ELSE
    Bind(ExtractorStep(insts[k], store, params, extracted, calls, fail, rnd), LAMBDA r :
      Bind([err |-> r.err,
            insts |-> [insts EXCEPT ![k] = r.inst],
            extracted |-> Update(extracted, r.writes, DOMAIN r.writes),
            calls |-> r.calls,
            steps |-> Append(steps,
                             [idx |-> k, store |-> store.id, params |-> params,
                              before |-> extracted, writes |-> r.writes, err |-> r.err,
                              inst_before |-> insts[k], inst_after |-> r.inst,
                              calls_before |-> Len(calls), calls_after |-> Len(r.calls)])],
           LAMBDA n :
             IF n.err # "none" THEN n
             ELSE RunChain(n.insts, k + 1, last, store, params, n.extracted, n.calls,
                           n.steps, fail, rnd)))

\* ComposeExtractor.extract, mutated: the last extractor is left out.
ComposeExtract_SkipLast(insts, store, params, extracted, fail, rnd) ==
  RunChain(insts, 1, Len(insts) - 1, store, params, extracted, <<>>, <<>>, fail, rnd)

\* ComposeExtractor.extract (lines 29-31).
ComposeExtract(insts, store, params, extracted, fail, rnd) ==
  RunChain(insts, 1, Len(insts), store, params, extracted, <<>>, <<>>, fail, rnd)

\* The extractor lists a ComposeExtractor is built from.
Chains ==
  {<<NamesExtractor(TRUE, <<"images", "labels">>),
     SelectiveDataExtractor(Some(<<"GT">>), "labels")>>,
   <<DataExtractor(<<"images">>, FALSE), SelectiveDataExtractor(None, "labels")>>,
   <<NamesExtractor(FALSE, <<"labels">>), DataExtractor(<<"labels">>, FALSE),
     SelectiveDataExtractor(Some(<<"GT">>), "labels")>>,
   <<NamesExtractor(TRUE, <<"images">>), RandomDataExtractor(None, "images"),
     DataExtractor(<<"images">>, TRUE)>>,
   <<RandomDataExtractor(Some(<<"T2">>), "images")>>}

\* The params of a call: a subject and a patch over all entries.
ChainParams ==
  {[subject_index |-> si, index_expr |-> IndexExpression(<< <<0, 1>>, <<0, 2>> >>)] :
     si \in 0..1}

\* The outcomes of np.random.choice that matter to a list of extractors.
RandomDraws(insts) ==
  IF \E k \in DOMAIN insts : insts[k].kind = "random" THEN 0..1 ELSE {0}

\* The result mappings a caller hands in: an empty one, and one that already
\* holds the names of both categories.
IncomingMappings ==
  {EmptyMap,
   Put(Put(EmptyMap, "images_names", <<"T1", "T2">>), "labels_names", <<"GT">>)}

ChainInit ==
  /\ ch_extractors \in Chains
  /\ ch_calls = 0
  /\ ch_prev = NoCall
  /\ ch_last = NoCall
  /\ CmpIdle
  /\ RaceIdle
  /\ TravIdle
  /\ PadIdle
  /\ CacheIdle

\* One ComposeExtractor.extract call and what it left behind.
ChainExtract ==
  /\ ch_calls < MaxChainCalls
  /\ \E store \in ChainStores, params \in ChainParams, incoming \in IncomingMappings,
        fail \in 0..2, rnd \in RandomDraws(ch_extractors) :
       \E res \in {ComposeExtract(ch_extractors, store, params, incoming, fail, rnd)} :
         /\ ch_extractors' = res.insts
         /\ ch_prev' = ch_last
         /\ ch_last' = [store |-> store.id, params |-> params, incoming |-> incoming,
                        fail |-> fail, rnd |-> rnd, before |-> ch_extractors,
                        err |-> res.err, result |-> res.extracted, steps |-> res.steps,
                        reader_calls |-> res.calls]
  /\ ch_calls' = ch_calls + 1
  /\ UNCHANGED <<travVars, padVars, cacheVars, cmpVars, raceVars>>

ChainNext == ChainExtract

SpecChain == ChainInit /\ [][ChainNext]_vars

\* The params of a compared call: a subject and one of two patches.
CompareParams ==
  {[subject_index |-> si, index_expr |-> IndexExpression(<<r, <<0, 2>> >>)] :
     si \in 0..1, r \in {<<0, 1>>, <<0, 2>>}}

CmpInit ==
  /\ cmp_category \in {"images", "labels"}
  /\ cmp_sel = Some(SelectiveDataExtractor(None, cmp_category))
  /\ cmp_dat = Some(DataExtractor(<<cmp_category>>, FALSE))
  /\ cmp_last = NoPair
  /\ cmp_calls = 0
  /\ ChainIdle
  /\ RaceIdle
  /\ TravIdle
  /\ PadIdle
  /\ CacheIdle

\* The same extract call made on both extractors, each with its own copy of
\* the incoming mapping; the caller stays with the store of its first call.
CompareExtract ==
  /\ cmp_calls < MaxChainCalls
  /\ \E store \in ChainStores, params \in CompareParams, incoming \in IncomingMappings,
        fail \in 0..1 :
       /\ cmp_last.store \in {"none", store.id}
       /\ \E sel \in {SelectiveStep(cmp_sel[1], store, params, incoming, <<>>, fail)},
             dat \in {DataStep(cmp_dat[1], store, params, <<>>, fail)} :
            /\ cmp_sel' = Some(sel.inst)
            /\ cmp_dat' = Some(dat.inst)
            /\ cmp_last' = [store |-> store.id, params |-> params, incoming |-> incoming,
                            fail |-> fail,
                            sel |-> [err |-> sel.err,
                                     result |-> Update(incoming, sel.writes,
                                                       DOMAIN sel.writes)],
                            dat |-> [err |-> dat.err,
                                     result |-> Update(incoming, dat.writes,
                                                       DOMAIN dat.writes)]]
  /\ cmp_calls' = cmp_calls + 1
  /\ UNCHANGED <<cmp_category, travVars, padVars, cacheVars, chainVars, raceVars>>

CmpNext == CompareExtract

SpecCompare == CmpInit /\ [][CmpNext]_vars

\* ------------------------------------ claims on the selecting extractors

\* The two calls of the latest pair had the same outcome: both raised, or both
\* returned and left the same value under the category.
SameOutcome ==
  /\ (cmp_last.sel.err = "none") = (cmp_last.dat.err = "none")
  /\ cmp_last.sel.err = "none" =>
       /\ cmp_category \in DOMAIN cmp_last.sel.result
       /\ cmp_category \in DOMAIN cmp_last.dat.result
       /\ cmp_last.sel.result[cmp_category] = cmp_last.dat.result[cmp_category]

\* The incoming mapping of the latest pair holds '<category>_names'.
NamesGiven == (cmp_category \o "_names") \in DOMAIN cmp_last.incoming

RecentSteps ==
  {ch_prev.steps[k] : k \in DOMAIN ch_prev.steps}
    \cup {ch_last.steps[k] : k \in DOMAIN ch_last.steps}

\* The step is a selecting extractor's call with a mapping without its names.
LacksNames(st) ==
  /\ st.inst_before.kind \in {"selective", "random"}
  /\ (st.inst_before.categories[1] \o "_names") \notin DOMAIN st.before

\* C12: SelectiveDataExtractor.extract and RandomDataExtractor.extract, called
\* with a mapping that does not hold '<category>_names', raise the
\* precondition error before any Reader call, and leave the mapping and the
\* instance's cached entry base names as they were.
C12_PreconditionFirst ==
  /\ \A st \in RecentSteps :
       LacksNames(st) =>
         /\ st.err = ErrPrecondition
         /\ st.calls_after = st.calls_before
         /\ st.writes = EmptyMap
         /\ st.inst_after = st.inst_before
  /\ (ch_last.steps # <<>> /\ LacksNames(ch_last.steps[Len(ch_last.steps)])) =>
       /\ ch_last.err = ErrPrecondition
       /\ ch_last.result = ch_last.steps[Len(ch_last.steps)].before

\* A RandomDataExtractor without cached entry base names raised on a mapping
\* without the names.
C12_Witness ==
  /\ ch_calls > 0
  /\ ch_last.err = ErrPrecondition
  /\ ch_last.steps[Len(ch_last.steps)].inst_before.kind = "random"
  /\ ch_last.steps[Len(ch_last.steps)].inst_before.entry_base_names = None
  /\ ch_last.reader_calls = <<>>

\* In a call that raised, the raising extractor was the last one run and its
\* exception is the call's.
AbortsAtFailure(call) ==
  call.err # "none" =>
    /\ call.steps # <<>>
    /\ call.steps[Len(call.steps)].err = call.err
    /\ \A k \in 1..(Len(call.steps) - 1) : call.steps[k].err = "none"
    /\ \A k \in 1..Len(call.steps) : call.steps[k].idx = k

\* C13: when an extractor of a chain raises, the extractors after it are not
\* run and the error reaches the caller; a later call on the same instances
\* with valid inputs and a fresh mapping produces the mapping it would have
\* produced had the failed call never been made.
C13_FailureLeavesNoTrace ==
  /\ AbortsAtFailure(ch_prev)
  /\ AbortsAtFailure(ch_last)
  /\ (ch_prev.store # "none" /\ ch_prev.err # "none") =>
       LET clean == ComposeExtract(ch_prev.before, ChainStoreById(ch_last.store),
                                   ch_last.params, ch_last.incoming, ch_last.fail,
                                   ch_last.rnd)
       IN  clean.err = "none" =>
             /\ ch_last.err = "none"
             /\ ch_last.result = clean.extracted

\* The steps of call that wrote key.
Writers(call, key) == {k \in DOMAIN call.steps : key \in DOMAIN call.steps[k].writes}

\* The keys any step of call wrote.
WrittenKeys(call) == UNION {DOMAIN call.steps[k].writes : k \in DOMAIN call.steps}

\* C18: a ComposeExtractor.extract call that returns has called each contained
\* extractor once, in list order, with the call's reader and params and with
\* the one result mapping; every key any of them wrote is in the mapping at
\* the end, with the value the latest extractor in the list wrote for it.
C18_ComposeInOrder ==
  (ch_calls > 0 /\ ch_last.err = "none") =>
    /\ Len(ch_last.steps) = Len(ch_last.before)
    /\ \A k \in DOMAIN ch_last.steps :
         LET st == ch_last.steps[k]
         IN  /\ st.idx = k
             /\ st.inst_before = ch_last.before[k]
             /\ st.store = ch_last.store
             /\ st.params = ch_last.params
             /\ st.before = (IF k = 1 THEN ch_last.incoming
                             ELSE Update(ch_last.steps[k - 1].before,
                                         ch_last.steps[k - 1].writes,
                                         DOMAIN ch_last.steps[k - 1].writes))
    /\ DOMAIN ch_last.result = DOMAIN ch_last.incoming \cup WrittenKeys(ch_last)
    /\ \A key \in DOMAIN ch_last.result :
         ch_last.result[key] =
           (IF Writers(ch_last, key) = {} THEN ch_last.incoming[key]
            ELSE ch_last.steps[Max(Writers(ch_last, key))].writes[key])

\* DataExtractor and then SelectiveDataExtractor wrote 'labels'; the mapping
\* holds the selection.
C18_Witness ==
  /\ ch_calls > 0
  /\ ch_last.err = "none"
  /\ Len(ch_last.steps) = 3
  /\ Writers(ch_last, "labels") = {2, 3}
  /\ ch_last.steps[2].writes["labels"] # ch_last.steps[3].writes["labels"]
  /\ ch_last.result["labels"] = ch_last.steps[3].writes["labels"]

\* ============================================ two callers, one extractor

\* The two callers that share one extractor instance.
Threads == {1, 2}

SubjectEntriesKey == [kind |-> "subject_entries", category |-> "", base |-> ""]

\* The params a caller may pass to the shared extractor.
RaceParams(kind, store) ==
  IF kind = "data"
  THEN {[subject_index |-> si, index_expr |-> ie] :
          si \in 0..(Len(store.entries) - 1), ie \in PatchIndexExprs(store.shape)}
  ELSE IF kind = "files"
  THEN {[subject_index |-> si, index_expr |-> NoIndexExpr] :
          si \in 0..(Len(store.entries) - 1)}
  ELSE {[subject_index |-> 0, index_expr |-> NoIndexExpr]}

\* A freshly constructed extractor and two callers about to call extract on
\* it, each with its own params and its own empty result mapping.
RaceInit ==
  /\ rc_kind \in {"names", "files", "data"}
  /\ rc_cache \in (IF rc_kind = "data" THEN {FALSE} ELSE BOOLEAN)
  /\ rc_categories \in (IF rc_kind = "data" THEN {<<"images">>, <<"images", "labels">>}
                        ELSE {<<"images", "labels">>, <<"labels">>})
  /\ rc_entire_subject \in (IF rc_kind = "data" THEN BOOLEAN ELSE {FALSE})
  /\ rc_store \in {st.id : st \in Stores}
  /\ rc_cached = None
  /\ rc_pc = [t \in Threads |-> "check"]
  /\ rc_local = [t \in Threads |-> None]
  /\ rc_params \in [Threads -> RaceParams(rc_kind, StoreById(rc_store))]
  /\ rc_extracted = [t \in Threads |-> EmptyMap]
  /\ rc_reads = <<>>
  /\ TravIdle
  /\ PadIdle
  /\ CacheIdle
  /\ ChainIdle
  /\ CmpIdle

\* The conditions of lines 47, 141 and 272 on the shared field.
RaceFresh ==
  IF rc_kind = "data" THEN rc_cached = None ELSE ~rc_cache \/ rc_cached = None

\* The test of the shared field, mutated: a caller that finds the field empty
\* marks it with an empty value before it reads the store.
RaceCheck_Placeholder(t) ==
  /\ rc_pc[t] = "check"
  /\ rc_pc' = [rc_pc EXCEPT ![t] = IF RaceFresh THEN "read" ELSE "use"]
  /\ rc_cached' = IF rc_cached = None
                  THEN Some(IF rc_kind = "names" THEN EmptyMap
                            ELSE IF rc_kind = "files" THEN "" ELSE <<>>)
                  ELSE rc_cached
  /\ UNCHANGED <<rc_kind, rc_cache, rc_categories, rc_entire_subject, rc_store, rc_local,
                 rc_params, rc_extracted, rc_reads, travVars, padVars, cacheVars,
                 chainVars, cmpVars>>

\* Lines 47, 141, 272: the caller tests the shared field.
RaceCheck(t) ==
  /\ rc_pc[t] = "check"
  /\ rc_pc' = [rc_pc EXCEPT ![t] = IF RaceFresh THEN "read" ELSE "use"]
  /\ UNCHANGED <<rc_kind, rc_cache, rc_categories, rc_entire_subject, rc_store, rc_cached,
                 rc_local, rc_params, rc_extracted, rc_reads, travVars, padVars,
                 cacheVars, chainVars, cmpVars>>

\* The value the caller computes from the store into a local (lines 48 and
\* 56-60, 142, 273-274) and the Reader calls it takes.
RaceValue(store) ==
  IF rc_kind = "names" THEN NamesDict(store, rc_categories)
  ELSE IF rc_kind = "files" THEN StoreFileRoot(store)
  ELSE EntryBaseNames(get_subject_entries(store))

RaceValueKeys ==
  IF rc_kind = "names" THEN [i \in 1..Len(rc_categories) |-> NamesKey(rc_categories[i])]
  ELSE IF rc_kind = "files" THEN <<FilesRootKey>>
  ELSE <<SubjectEntriesKey>>

RaceLog(t, keys) == [i \in 1..Len(keys) |-> [caller |-> t, key |-> keys[i]]]

\* Lines 48, 142, 273-274 (right-hand sides): the caller reads the store.
RaceRead(t) ==
  /\ rc_pc[t] = "read"
  /\ rc_local' = [rc_local EXCEPT ![t] = Some(RaceValue(StoreById(rc_store)))]
  /\ rc_reads' = rc_reads \o RaceLog(t, RaceValueKeys)
  /\ rc_pc' = [rc_pc EXCEPT ![t] = "store"]
  /\ UNCHANGED <<rc_kind, rc_cache, rc_categories, rc_entire_subject, rc_store, rc_cached,
                 rc_params, rc_extracted, travVars, padVars, cacheVars, chainVars,
                 cmpVars>>

\* Lines 49, 143, 274: the caller assigns the shared field. NamesExtractor
\* and FilesExtractor go on with their local; DataExtractor reads the field
\* again at line 279.
RaceStore(t) ==
  /\ rc_pc[t] = "store"
  /\ rc_cached' = rc_local[t]
  /\ rc_pc' = [rc_pc EXCEPT ![t] = IF rc_kind = "data" THEN "use" ELSE "emit"]
  /\ UNCHANGED <<rc_kind, rc_cache, rc_categories, rc_entire_subject, rc_store, rc_local,
                 rc_params, rc_extracted, rc_reads, travVars, padVars, cacheVars,
                 chainVars, cmpVars>>

\* Lines 51, 145, 279: the caller takes the value of the shared field.
RaceUse(t) ==
  /\ rc_pc[t] = "use"
  /\ rc_local' = [rc_local EXCEPT ![t] = rc_cached]
  /\ rc_pc' = [rc_pc EXCEPT ![t] = "emit"]
  /\ UNCHANGED <<rc_kind, rc_cache, rc_categories, rc_entire_subject, rc_store, rc_cached,
                 rc_params, rc_extracted, rc_reads, travVars, padVars, cacheVars,
                 chainVars, cmpVars>>

\* Lines 53-54, 147-151, 279-285: what the caller writes into its own result
\* mapping from its local value, and the Reader calls it takes.
RaceOutput(store, value, params, extracted) ==
  IF rc_kind = "names"
  THEN [err |-> "none", extracted |-> Update(extracted, value, DOMAIN value),
        reads |-> <<>>]
  ELSE IF rc_kind = "files"
  THEN LET files_d == FilesDict(store, rc_categories, params.subject_index)
       IN  [err |-> "none",
            extracted |-> Update(Put(extracted, "file_root", value), files_d,
                                 DOMAIN files_d),
            reads |-> [i \in 1..Len(rc_categories) |-> FilesKey(rc_categories[i])]]
  ELSE IF (params.subject_index + 1) \notin DOMAIN value
  THEN [err |-> "IndexError", extracted |-> extracted, reads |-> <<>>]
  ELSE DataLoop(store, rc_categories, value[params.subject_index + 1],
                rc_entire_subject, params.index_expr, extracted, <<>>)

\* Lines 53-54, 147-151, 279-285: the caller fills its result mapping and
\* returns, or a read raises.
RaceEmit(t) ==
  /\ rc_pc[t] = "emit"
  /\ \E res \in {RaceOutput(StoreById(rc_store), rc_local[t][1], rc_params[t],
                            rc_extracted[t])} :
       /\ rc_extracted' = [rc_extracted EXCEPT ![t] = res.extracted]
       /\ rc_reads' = rc_reads \o RaceLog(t, res.reads)
       /\ rc_pc' = [rc_pc EXCEPT ![t] = IF res.err = "none" THEN "done" ELSE "raised"]
  /\ UNCHANGED <<rc_kind, rc_cache, rc_categories, rc_entire_subject, rc_store, rc_cached,
                 rc_local, rc_params, travVars, padVars, cacheVars, chainVars, cmpVars>>

RaceNext ==
  \/ \E t \in Threads : RaceCheck(t)
  \/ \E t \in Threads : RaceRead(t)
  \/ \E t \in Threads : RaceStore(t)
  \/ \E t \in Threads : RaceUse(t)
  \/ \E t \in Threads : RaceEmit(t)

SpecRace == RaceInit /\ [][RaceNext]_vars

\* What one extract call on a fresh instance of the same configuration, alone
\* on the store, leaves in an empty result mapping.
Sequential(params) ==
  IF rc_kind = "names"
  THEN [err |-> "none",
        extracted |-> NamesExtractorExtract(StoreById(rc_store), rc_cache, None,
                                            rc_categories, EmptyMap).extracted]
  ELSE IF rc_kind = "files"
  THEN [err |-> "none",
        extracted |-> FilesExtractorExtract(StoreById(rc_store), rc_cache, None,
                                            rc_categories, params, EmptyMap).extracted]
  ELSE LET res == DataExtractorExtract(StoreById(rc_store), rc_categories,
                                       rc_entire_subject, None, params, EmptyMap)
       IN  [err |-> res.err, extracted |-> res.extracted]

Returned(t) == rc_pc[t] \in {"done", "raised"}

\* The callers that have taken the Reader call that fills the shared field.
Fillers == {rc_reads[i].caller : i \in {j \in DOMAIN rc_reads :
                                          rc_reads[j].key = RaceValueKeys[1]}}

\* C14: under every interleaving of two extract calls on one shared
\* NamesExtractor, FilesExtractor or DataExtractor against the same store,
\* each caller's result mapping ends equal to the one a sequential call with
\* its params produces, and once both have returned the shared field holds
\* the store's value.
C14_RaceFree ==
  /\ \A t \in Threads :
       Returned(t) =>
         /\ (rc_pc[t] = "raised") = (Sequential(rc_params[t]).err # "none")
         /\ rc_extracted[t] = Sequential(rc_params[t]).extracted
  /\ (rc_kind # "none" /\ \A t \in Threads : Returned(t)) =>
       rc_cached = Some(RaceValue(StoreById(rc_store)))

\* Both callers of a shared DataExtractor found entry_base_names empty, both
\* read the subject entries and assigned the field, and both have returned,
\* with different params and different result mappings.
C14_Witness ==
  /\ rc_kind = "data"
  /\ \A t \in Threads : rc_pc[t] = "done"
  /\ Fillers = Threads
  /\ rc_params[1] # rc_params[2]
  /\ rc_extracted[1] # rc_extracted[2]

\* ================================================= traverse runs to its end

\* Subject files for the runs to completion: one or two sequences, with or
\* without one label image.
LiveFileLists ==
  UNION {[1..n -> {f \in SubjectFiles : /\ f.images \in {<<"T1">>, <<"T1", "T2">>}
                                        /\ f.label_images \in {None, Some(<<"GT">>)}}] :
           n \in 0..MaxSubjects}

TravLiveInit ==
  /\ files \in LiveFileLists
  /\ TravInit

\* traverse is straight-line Python: while it has not returned or raised, its
\* next statement is executed.
SpecTraverseLive == TravLiveInit /\ [][TravNext]_vars /\ WF_vars(TravNext)

Fired(name, si) ==
  \E i \in 1..Len(hooks) : hooks[i].hook = name /\ hooks[i].subject_index = si

\* C21: when no Loader call fails, on_start is eventually followed by on_end
\* and every on_subject_start by the on_subject_end of the same subject_index
\* (the hooks and the transform of the model always return; on_start fires
\* only for a non-empty homogeneous list).
C21_Terminates ==
  [](err # ErrLoader) =>
    /\ (HookCount("on_start") > 0) ~> (HookCount("on_end") > 0)
    /\ \A si \in 0..(MaxSubjects - 1) :
         Fired("on_subject_start", si) ~> Fired("on_subject_end", si)

\* A traversal of several subjects with labels has returned: every subject
\* was started and ended, and on_end has fired.
C21_Witness ==
  /\ pc = "done"
  /\ Len(files) = MaxSubjects
  /\ has_gt
  /\ transform
  /\ HookCount("on_start") = 1
  /\ HookCount("on_end") = 1
  /\ \A si \in 0..(Len(files) - 1) :
       Fired("on_subject_start", si) /\ Fired("on_subject_end", si)

\* ------------------------------------------- traverser: ground truth or none

\* The keys of callback_params (lines 42-46).
CallbackParams(hg) ==
  {"subject_files", "has_gt", "sequence_names"} \cup (IF hg THEN {"gt_names"} ELSE {})

\* The keys of a payload mapping (lines 70, 84, 87).
PayloadKeys(payload) ==
  IF payload = NoParams THEN {}
  ELSE {"subject", "subject_index", "images"}
         \cup (IF payload.has_labels THEN {"labels"} ELSE {})
         \cup DOMAIN payload.extra

\* The keys of the mapping a hook received (lines 49, 56, 67, 81, 90, 93).
HookKeys(h) ==
  CallbackParams(h.has_gt) \cup
  (CASE h.hook \in {"on_start", "on_end"} -> {}
     [] h.hook = "on_subject_start" -> {"subject", "subject_index"}
     [] h.hook = "on_image_file" ->
          {"subject", "subject_index", "sequence", "sequence_index", "file", "raw_image"}
     [] h.hook = "on_gt_file" ->
          {"subject", "subject_index", "gt", "gt_index", "file", "raw_label"}
     [] h.hook = "on_subject_end" ->
          {"subject", "subject_index"} \cup PayloadKeys(h.payload))

NoGroundTruth == \A i \in 1..Len(files) : files[i].label_images = None

SubjectEnds == {i \in 1..Len(hooks) : hooks[i].hook = "on_subject_end"}

\* C22 as stated: without ground truth no label image is loaded, no
\* on_gt_file fires, every hook gets has_gt = false and no gt_names, and the
\* payloads of the transform and of on_subject_end hold no labels; with
\* ground truth every on_subject_end payload holds images and labels.
C22_LabelsIffGroundTruth ==
  /\ NoGroundTruth =>
       /\ LoaderCount("load_image_labels") = 0
       /\ HookCount("on_gt_file") = 0
       /\ \A i \in 1..Len(hooks) :
            hooks[i].params.has_gt = FALSE /\ "gt_names" \notin HookKeys(hooks[i])
       /\ \A k \in 1..Len(transform_calls) : "labels" \notin PayloadKeys(transform_calls[k].params)
       /\ \A i \in SubjectEnds : "labels" \notin HookKeys(hooks[i])
  /\ has_gt =>
       \A i \in SubjectEnds : {"images", "labels"} \subseteq HookKeys(hooks[i])

\* C22, amended: without ground truth no label image is loaded, no on_gt_file
\* fires, every hook before on_subject_end gets has_gt = false and no
\* gt_names, and the transform's input holds no labels; with ground truth the
\* transform's input holds images and labels. on_subject_end gets the
\* transform's output merged over the context, so without a transform it gets
\* has_gt and labels as above, and with one whatever the transform returned.
C22_LabelsFollowGroundTruth ==
  /\ NoGroundTruth =>
       /\ LoaderCount("load_image_labels") = 0
       /\ HookCount("on_gt_file") = 0
       /\ \A i \in (1..Len(hooks)) \ SubjectEnds :
            hooks[i].params.has_gt = FALSE /\ "gt_names" \notin HookKeys(hooks[i])
       /\ \A k \in 1..Len(transform_calls) : "labels" \notin PayloadKeys(transform_calls[k].params)
       /\ pc \in {"transform", "subject_end"} /\ ~transform =>
            "labels" \notin PayloadKeys(transform_params)
  /\ has_gt =>
       /\ \A k \in 1..Len(transform_calls) :
            {"images", "labels"} \subseteq PayloadKeys(transform_calls[k].params)
       /\ pc = "transform" => {"images", "labels"} \subseteq PayloadKeys(transform_params)
  /\ \A i \in SubjectEnds :
       IF transform
       THEN hooks[i].payload =
              ApplyTransform(transform_fn, transform_calls[hooks[i].subject_index + 1].params)
       ELSE /\ hooks[i].params.has_gt = has_gt
            /\ ("labels" \in HookKeys(hooks[i])) = has_gt
            /\ ("gt_names" \in HookKeys(hooks[i])) = has_gt
            /\ "images" \in HookKeys(hooks[i])

\* A completed traversal of subjects without ground truth whose transform
\* returned a has_gt key of its own: on_subject_end received has_gt = true.
C22_Witness ==
  /\ pc = "done" /\ callback /\ transform
  /\ NoGroundTruth
  /\ Len(files) >= 2
  /\ Len(transform_calls) = Len(files)
  /\ \E i \in SubjectEnds : hooks[i].params.has_gt = TRUE

\* ------------------------------------------------ RandomDataExtractor: claims

\* The steps of call in which a RandomDataExtractor returned.
RandomSteps(call) ==
  {k \in DOMAIN call.steps : /\ call.steps[k].inst_before.kind = "random"
                             /\ call.steps[k].err = "none"}

\* What Reader.read returns for the step's category, subject and index
\* expression: the data of all entries.
AllEntries(st) ==
  ReadData(ChainStoreById(st.store),
           DataKey(st.inst_before.categories[1],
                   st.inst_after.entry_base_names[1][st.params.subject_index + 1]),
           st.params.index_expr).data

\* The positions in label_names of the entry whose data the step wrote.
DrawnEntries(st) ==
  LET category == st.inst_before.categories[1]
      label_names == st.before[category \o "_names"]
  IN  {e \in 0..(Len(label_names) - 1) : st.writes[category] = TakeOne(AllEntries(st), e)}

\* C23: every RandomDataExtractor.extract call that returns wrote, under its
\* category and nowhere else, the data of exactly one entry along the last
\* axis, an entry whose name is in the selection (in `<category>_names` when
\* the selection is None); the call leaves nothing of the draw in the
\* instance, whose only changed field is entry_base_names.
C23_OneSelectedEntry ==
  \A call \in {ch_prev, ch_last} :
    \A k \in RandomSteps(call) :
      LET st == call.steps[k]
          category == st.inst_before.categories[1]
          label_names == st.before[category \o "_names"]
          allowed == IF st.inst_before.selection = None THEN Range(label_names)
                     ELSE Range(st.inst_before.selection[1])
      IN  /\ DOMAIN st.writes = {category}
          /\ Len(st.writes[category].shape) = Len(AllEntries(st).shape) - 1
          /\ Cardinality(DrawnEntries(st)) = 1
          /\ \A e \in DrawnEntries(st) : label_names[e + 1] \in allowed
          /\ st.inst_after = [st.inst_before EXCEPT !.entry_base_names =
                                                      st.inst_after.entry_base_names]

\* Two calls on one instance with the same store, params and incoming
\* mapping returned different entries.
C23_Witness ==
  /\ ch_calls = 2
  /\ ch_prev.store = ch_last.store
  /\ ch_prev.params = ch_last.params
  /\ ch_prev.incoming = ch_last.incoming
  /\ \E k \in RandomSteps(ch_prev) \cap RandomSteps(ch_last) :
       /\ ch_prev.steps[k].inst_before.selection = None
       /\ DrawnEntries(ch_prev.steps[k]) # DrawnEntries(ch_last.steps[k])
       /\ ch_prev.steps[k].writes # ch_last.steps[k].writes

====
